---------------------------- MODULE Spec2Model ----------------------------
(***************************************************************************)
(* A model of the UCSF dental appointment checker: the slot record and its *)
(* identity (src/src/slot_checker.py AppointmentSlot), the normalizer      *)
(* (SlotParser), the reconciliation (compare_slots), the file-backed       *)
(* history (SlotHistory) and the check cycle (src/main.py).                *)
(*                                                                         *)
(* Python values are tagged records, so that None, strings and integers    *)
(* can sit in the same field and be compared: None is [t |-> "none"], a    *)
(* string is [t |-> "str", s |-> ...], an integer is [t |-> "int", n |->   *)
(* ...].                                                                   *)
(***************************************************************************)
EXTENDS Integers, Sequences, FiniteSets, TLC

VARIABLES
    file,        \* the history file on disk: [kind, data]
    clock,       \* datetime.utcnow(), a logical clock
    issues,      \* the GitHub issues created so far, each a list of slots
    appended,    \* every check record a completed update() has appended, in order
    cyc,         \* per process: the locals of check_appointments and its position
    current,     \* compare_slots harness: the argument `current`
    previous,    \* compare_slots harness: the argument `previous`, in iteration order
    comparison,  \* compare_slots harness: the returned dict
    data,        \* SlotParser harness: a raw record
    data2,       \* SlotParser harness: a second raw record
    parsed,      \* SlotParser harness: what _parse_single_slot returned for each
    document,  \* parse_slots harness: the GetSlots document
    parse_result,   \* parse_slots harness: what parse_slots did with it
    epic_int,    \* epoch harness: a day number
    converted,   \* epoch harness: what the two conversions gave for it
    wf           \* run_full_workflow: its position, the requests it has sent

vars == <<file, clock, issues, appended, cyc, current, previous, comparison,
          data, data2, parsed, document, parse_result, epic_int, converted, wf>>

cycleVars   == <<file, clock, issues, appended, cyc>>
compareVars == <<current, previous, comparison>>
parserVars  == <<data, data2, parsed>>
payloadVars == <<document, parse_result>>
epochVars   == <<epic_int, converted>>

---------------------------------------------------------------------------
\* Bounds of the model.

MaxCur == 3          \* longest `current` list the compare harness draws
MaxPrev == 2         \* largest `previous` set the compare harness draws
MaxSlots == 2        \* longest slot list the upstream returns in a cycle
MaxClock == 4        \* no cycle starts once the clock has reached this
MaxUpdates == 150    \* updates in a run of the history-cap specification
MaxItems == 2        \* longest list of records in a GetSlots document
MaxContainers == 1   \* most provider or department containers in a document
MaxDayNumber == 100000  \* largest day number the epoch harness converts
MaxRawUpdates == 3   \* updates in a run of the raw-response specification

\* Program constant: checks[-100:]
HistoryCap == 100

---------------------------------------------------------------------------
\* Python values.

None == [t |-> "none"]
PyStr(s) == [t |-> "str", s |-> s]
PyInt(n) == [t |-> "int", n |-> n]
\* a list holds its items as a sequence, a dict its entries as a function
\* from the keys it has
PyList(items) == [t |-> "list", items |-> items]
PyDict(d) == [t |-> "dict", d |-> d]

EmptyList == PyList(<<>>)
\* the entries of {}
EmptyRaw == [k \in {} |-> None]

\* bool(v): None, "", 0, [] and {} are falsy.
Truthy(v) ==
    /\ v # None /\ v # PyStr("") /\ v # PyInt(0)
    /\ ~(v.t = "list" /\ Len(v.items) = 0)
    /\ ~(v.t = "dict" /\ DOMAIN v.d = {})

\* a or b
Or(a, b) == IF Truthy(a) THEN a ELSE b

\* d.get(k): the value under k, None when k is absent.
Get(d, k) == IF k \in DOMAIN d THEN d[k] ELSE None

\* d.get(k, default)
GetOr(d, k, default) == IF k \in DOMAIN d THEN d[k] ELSE default

RECURSIVE KeysInSomeOrder(_)
\* the keys of a dict as a list of strings
KeysInSomeOrder(keys) ==
    IF keys = {} THEN <<>>
    ELSE LET k == CHOOSE x \in keys : TRUE
         IN  <<PyStr(k)>> \o KeysInSomeOrder(keys \ {k})

\* for x in v: [raised, items].  A list gives its items, a dict its keys, a
\* string its characters; an int or None is not iterable (TypeError).
Iterate(v) ==
    CASE v.t = "list" -> [raised |-> FALSE, items |-> v.items]
      [] v.t = "dict" -> [raised |-> FALSE, items |-> KeysInSomeOrder(DOMAIN v.d)]
      [] v.t = "str" -> [raised |-> FALSE,
                         items |-> [i \in 1..Len(v.s) |-> PyStr(SubSeq(v.s, i, i))]]
      [] OTHER -> [raised |-> TRUE, items |-> <<>>]

RECURSIVE FilterSeq(_, _)
\* [s for s in seq if Keep[s]], Keep given as the set of elements kept
FilterSeq(seq, keep) ==
    IF seq = <<>> THEN <<>>
    ELSE IF Head(seq) \in keep
         THEN <<Head(seq)>> \o FilterSeq(Tail(seq), keep)
         ELSE FilterSeq(Tail(seq), keep)

Range(seq) == {seq[i] : i \in DOMAIN seq}

---------------------------------------------------------------------------
\* AppointmentSlot: the dataclass, its hash and its equality.

AppointmentSlot(date, time, provider, department, department_id, slot_id) ==
    [date |-> date, time |-> time, provider |-> provider,
     department |-> department, department_id |-> department_id,
     slot_id |-> slot_id]

\* __hash__: hash((date, time, department_id)).  Python's hash of a tuple is
\* a function of the tuple's value; a hash is modelled as the value hashed.
SlotHash(slot) == [hash_of |-> <<slot.date, slot.time, slot.department_id>>]

SlotEqAllFields(a, b) == a = b

\* __eq__: both are AppointmentSlots here; the tuples are compared.
SlotEq(a, b) ==
    <<a.date, a.time, a.department_id>> = <<b.date, b.time, b.department_id>>

\* `slot in container` for a set (or a list): some member has the same hash
\* and is equal.
In(slot, members) ==
    \E m \in members : SlotHash(m) = SlotHash(slot) /\ SlotEq(m, slot)

RECURSIVE PySetOf(_)
\* set(seq) / a set comprehension over seq: an element equal to one already
\* in the set is not added (the first one stays).
PySetOf(seq) ==
    IF seq = <<>> THEN {}
    ELSE LET rest == PySetOf(SubSeq(seq, 1, Len(seq) - 1))
             last == seq[Len(seq)]
         IN  IF In(last, rest) THEN rest ELSE rest \cup {last}

\* to_dict: asdict(self), a mapping with the six field names as keys.
to_dict(slot) ==
    [k \in {"date", "time", "provider", "department", "department_id", "slot_id"}
        |-> CASE k = "date" -> slot.date
              [] k = "time" -> slot.time
              [] k = "provider" -> slot.provider
              [] k = "department" -> slot.department
              [] k = "department_id" -> slot.department_id
              [] k = "slot_id" -> slot.slot_id]

\* from_dict: cls(**data)
from_dict(d) ==
    AppointmentSlot(d["date"], d["time"], d["provider"], d["department"],
                    d["department_id"], d["slot_id"])

---------------------------------------------------------------------------
\* compare_slots

RECURSIVE Dedup(_)
\* the list without the later occurrences of an element equal to an earlier one
Dedup(seq) ==
    IF seq = <<>> THEN <<>>
    ELSE LET front == Dedup(SubSeq(seq, 1, Len(seq) - 1))
             last == seq[Len(seq)]
         IN  IF In(last, Range(front)) THEN front ELSE Append(front, last)

compare_slots_deduplicating(cur, prev) ==
    LET current_set == PySetOf(cur)
    IN  [new |-> FilterSeq(Dedup(cur), {s \in Range(cur) : ~In(s, Range(prev))}),
         removed |-> FilterSeq(prev, {s \in Range(prev) : ~In(s, current_set)}),
         unchanged |-> FilterSeq(Dedup(cur), {s \in Range(cur) : In(s, Range(prev))})]

compare_slots_new_from_set(cur, prev) ==
    LET current_set == PySetOf(cur)
    IN  [new |-> FilterSeq(Dedup(cur), {s \in Range(cur) : ~In(s, Range(prev))}),
         removed |-> FilterSeq(prev, {s \in Range(prev) : ~In(s, current_set)}),
         unchanged |-> FilterSeq(cur, {s \in Range(cur) : In(s, Range(prev))})]

compare_slots_unchanged_vs_current(cur, prev) ==
    LET current_set == PySetOf(cur)
    IN  [new |-> FilterSeq(cur, {s \in Range(cur) : ~In(s, Range(prev))}),
         removed |-> FilterSeq(prev, {s \in Range(prev) : ~In(s, current_set)}),
         unchanged |-> FilterSeq(cur, {s \in Range(cur) : In(s, current_set)})]

compare_slots_removed_vs_new(cur, prev) ==
    LET new_slots == FilterSeq(cur, {s \in Range(cur) : ~In(s, Range(prev))})
    IN  [new |-> new_slots,
         removed |-> FilterSeq(prev, {s \in Range(prev) : ~In(s, Range(new_slots))}),
         unchanged |-> FilterSeq(cur, {s \in Range(cur) : In(s, Range(prev))})]

\* `prev` is the previous set in its iteration order (a sequence without
\* two equal members); `cur` is the current list.
compare_slots(cur, prev) ==
    LET current_set == PySetOf(cur)
    IN  [new |-> FilterSeq(cur, {s \in Range(cur) : ~In(s, Range(prev))}),
         removed |-> FilterSeq(prev, {s \in Range(prev) : ~In(s, current_set)}),
         unchanged |-> FilterSeq(cur, {s \in Range(cur) : In(s, Range(prev))})]


---------------------------------------------------------------------------
\* The slots the harnesses and the upstream draw from.  Two dates, two
\* times, a record with and without a department id, and records that share
\* an identity and differ in provider or department text only.

D1 == PyStr("2026-08-05")
D2 == PyStr("2026-08-06")
T1 == PyStr("8:30 AM")
T2 == PyStr("9:00 AM")
Rai == PyStr("Dr. Rai")
Lee == PyStr("Dr. Lee")
Dept == PyStr("3202010")
Clinic == PyStr("UCSF Dental Center")

SlotUniverse ==
    { AppointmentSlot(D1, T1, None, None, None, None),
      AppointmentSlot(D1, T1, Rai, Clinic, None, None),
      AppointmentSlot(D1, T1, Lee, None, Dept, None),
      AppointmentSlot(D2, T2, None, None, None, None),
      AppointmentSlot(D2, T2, Lee, None, None, None),
      AppointmentSlot(D2, T1, Rai, None, None, None) }

\* All lists over S of length at most n.
SeqsUpTo(S, n) == UNION {[1..k -> S] : k \in 0..n}

\* A Python set in some iteration order: a list no two of whose members are
\* equal (no order is promised, so every order is possible).
IsPySetOrder(seq) ==
    \A i, j \in DOMAIN seq : i # j => ~SlotEq(seq[i], seq[j])

NotCompared == [called |-> FALSE, new |-> <<>>, removed |-> <<>>, unchanged |-> <<>>]

CompareInit ==
    /\ current \in SeqsUpTo(SlotUniverse, MaxCur)
    /\ previous \in {p \in SeqsUpTo(SlotUniverse, MaxPrev) : IsPySetOrder(p)}
    /\ comparison = NotCompared

\* comparison = compare_slots(current, previous)
Compare ==
    /\ ~comparison.called
    /\ comparison' = [called |-> TRUE] @@ compare_slots(current, previous)
    /\ UNCHANGED <<current, previous>>


---------------------------------------------------------------------------
\* Dates: datetime.date as [year, month, day], with the proleptic Gregorian
\* ordinal arithmetic that date +/- timedelta performs.

EPIC_DATE_EPOCH_YEAR == 1840
EPIC_DATE_EPOCH_MONTH == 12
EPIC_DATE_EPOCH_DAY == 31

IsLeap(y) == y % 4 = 0 /\ (y % 100 # 0 \/ y % 400 = 0)

DaysInMonth(y, m) ==
    CASE m \in {1, 3, 5, 7, 8, 10, 12} -> 31
      [] m \in {4, 6, 9, 11} -> 30
      [] OTHER -> IF IsLeap(y) THEN 29 ELSE 28

RECURSIVE DaysBeforeMonth(_, _)
DaysBeforeMonth(y, m) ==
    IF m = 1 THEN 0 ELSE DaysBeforeMonth(y, m - 1) + DaysInMonth(y, m - 1)

DaysBeforeYear(y) ==
    (y - 1) * 365 + ((y - 1) \div 4) - ((y - 1) \div 100) + ((y - 1) \div 400)

\* d.toordinal(): 0001-01-01 is day 1
date_toordinal(d) ==
    DaysBeforeYear(d.year) + DaysBeforeMonth(d.year, d.month) + d.day

\* date.max.toordinal(): date arithmetic beyond 9999-12-31 raises OverflowError
MaxOrdinal == date_toordinal([year |-> 9999, month |-> 12, day |-> 31])

\* date.fromordinal(n), for 1 <= n <= MaxOrdinal
date_fromordinal(n) ==
    LET n0 == n - 1
        n400 == n0 \div 146097
        r400 == n0 % 146097
        n100 == r400 \div 36524
        r100 == r400 % 36524
        n4 == r100 \div 1461
        r4 == r100 % 1461
        n1 == r4 \div 365
        r1 == r4 % 365
        y == n400 * 400 + 1 + n100 * 100 + n4 * 4 + n1
    IN  IF n1 = 4 \/ n100 = 4
        THEN [year |-> y - 1, month |-> 12, day |-> 31]
        ELSE LET m == CHOOSE k \in 1..12 :
                        /\ DaysBeforeMonth(y, k) <= r1
                        /\ r1 < DaysBeforeMonth(y, k) + DaysInMonth(y, k)
             IN  [year |-> y, month |-> m, day |-> r1 - DaysBeforeMonth(y, m) + 1]

epoch ==
    [year |-> EPIC_DATE_EPOCH_YEAR, month |-> EPIC_DATE_EPOCH_MONTH,
     day |-> EPIC_DATE_EPOCH_DAY]

epic_date_to_int_counting_epoch(d) == date_toordinal(d) - date_toordinal(epoch) + 1

\* epic_date_to_int: (d - epoch).days
epic_date_to_int(d) == date_toordinal(d) - date_toordinal(epoch)

\* epoch + timedelta(days=epic_int) raises OverflowError outside date.min..date.max
int_to_epic_date_raises(n) ==
    LET ord == date_toordinal(epoch) + n
    IN  ord < 1 \/ ord > MaxOrdinal

int_to_epic_date_from_next_day(n) == date_fromordinal(date_toordinal(epoch) + n + 1)

\* int_to_epic_date: epoch + timedelta(days=epic_int)
int_to_epic_date(n) == date_fromordinal(date_toordinal(epoch) + n)

Digit(k) == SubSeq("0123456789", k + 1, k + 1)

RECURSIVE Decimal(_)
\* str(n) for n >= 0
Decimal(n) == IF n < 10 THEN Digit(n) ELSE Decimal(n \div 10) \o Digit(n % 10)

\* "%0wd" % n for n >= 0
RECURSIVE ZeroPad(_, _)
ZeroPad(s, w) == IF Len(s) >= w THEN s ELSE ZeroPad("0" \o s, w)

\* d.isoformat(): YYYY-MM-DD
isoformat(d) ==
    ZeroPad(Decimal(d.year), 4) \o "-" \o ZeroPad(Decimal(d.month), 2) \o "-"
        \o ZeroPad(Decimal(d.day), 2)

\* str(v): a string is itself, an int its decimal digits, a list or a dict
\* the text of its repr (never empty)
str(v) ==
    CASE v.t = "int" -> PyStr(IF v.n < 0 THEN "-" \o Decimal(0 - v.n) ELSE Decimal(v.n))
      [] v.t \in {"list", "dict"} -> [t |-> "str", repr |-> v]
      [] OTHER -> v

---------------------------------------------------------------------------
\* SlotParser._parse_single_slot.  The result is a slot, or None; .get
\* on anything but a dict raises AttributeError inside the try, which the
\* except turns into None.

_parse_single_slot_date_keys_swapped(slot_data, date_override, provider, department, department_id) ==
    IF slot_data.t # "dict" THEN None ELSE
    LET raw == slot_data.d
        slot_date ==
            IF ~Truthy(date_override)
            THEN Or(Get(raw, "date"), Or(Get(raw, "Date"),
                 Or(Get(raw, "AppointmentDate"), Get(raw, "StartDate"))))
            ELSE date_override
        slot_time ==
            Or(Get(raw, "Time"), Or(Get(raw, "time"),
            Or(Get(raw, "StartTime"), Get(raw, "DisplayTime"))))
    IN  IF ~Truthy(slot_date) \/ ~Truthy(slot_time) THEN None
        ELSE IF slot_date.t = "int" /\ int_to_epic_date_raises(slot_date.n) THEN None
        ELSE AppointmentSlot(
                IF slot_date.t = "int"
                THEN PyStr(isoformat(int_to_epic_date(slot_date.n)))
                ELSE str(slot_date),
                str(slot_time),
                Or(provider, Or(Get(raw, "ProviderName"), Get(raw, "Provider"))),
                Or(department, Or(Get(raw, "DepartmentName"), Get(raw, "Department"))),
                Or(department_id, Or(Get(raw, "DepartmentId"), Get(raw, "DeptId"))),
                Or(Get(raw, "Id"), Get(raw, "SlotId")))

_parse_single_slot_keeping_incomplete(slot_data, date_override, provider, department, department_id) ==
    IF slot_data.t # "dict" THEN None ELSE
    LET raw == slot_data.d
        slot_date ==
            IF ~Truthy(date_override)
            THEN Or(Get(raw, "Date"), Or(Get(raw, "date"),
                 Or(Get(raw, "AppointmentDate"), Get(raw, "StartDate"))))
            ELSE date_override
        slot_time ==
            Or(Get(raw, "Time"), Or(Get(raw, "time"),
            Or(Get(raw, "StartTime"), Get(raw, "DisplayTime"))))
    IN  IF slot_date.t = "int" /\ int_to_epic_date_raises(slot_date.n) THEN None
        ELSE AppointmentSlot(
                IF slot_date.t = "int"
                THEN PyStr(isoformat(int_to_epic_date(slot_date.n)))
                ELSE str(slot_date),
                str(slot_time),
                Or(provider, Or(Get(raw, "ProviderName"), Get(raw, "Provider"))),
                Or(department, Or(Get(raw, "DepartmentName"), Get(raw, "Department"))),
                Or(department_id, Or(Get(raw, "DepartmentId"), Get(raw, "DeptId"))),
                Or(Get(raw, "Id"), Get(raw, "SlotId")))

_parse_single_slot_id_from_name(slot_data, date_override, provider, department, department_id) ==
    IF slot_data.t # "dict" THEN None ELSE
    LET raw == slot_data.d
        slot_date ==
            IF ~Truthy(date_override)
            THEN Or(Get(raw, "Date"), Or(Get(raw, "date"),
                 Or(Get(raw, "AppointmentDate"), Get(raw, "StartDate"))))
            ELSE date_override
        slot_time ==
            Or(Get(raw, "Time"), Or(Get(raw, "time"),
            Or(Get(raw, "StartTime"), Get(raw, "DisplayTime"))))
    IN  IF ~Truthy(slot_date) \/ ~Truthy(slot_time) THEN None
        ELSE IF slot_date.t = "int" /\ int_to_epic_date_raises(slot_date.n) THEN None
        ELSE AppointmentSlot(
                IF slot_date.t = "int"
                THEN PyStr(isoformat(int_to_epic_date(slot_date.n)))
                ELSE str(slot_date),
                str(slot_time),
                Or(provider, Or(Get(raw, "ProviderName"), Get(raw, "Provider"))),
                Or(department, Or(Get(raw, "DepartmentName"), Get(raw, "Department"))),
                Or(department_id, Or(Get(raw, "DepartmentId"),
                   Or(Get(raw, "DeptId"), Get(raw, "DepartmentName")))),
                Or(Get(raw, "Id"), Get(raw, "SlotId")))

_parse_single_slot(slot_data, date_override, provider, department, department_id) ==
    IF slot_data.t # "dict" THEN None ELSE
    LET raw == slot_data.d
        slot_date ==
            IF ~Truthy(date_override)
            THEN Or(Get(raw, "Date"), Or(Get(raw, "date"),
                 Or(Get(raw, "AppointmentDate"), Get(raw, "StartDate"))))
            ELSE date_override
        slot_time ==
            Or(Get(raw, "Time"), Or(Get(raw, "time"),
            Or(Get(raw, "StartTime"), Get(raw, "DisplayTime"))))
    IN  IF ~Truthy(slot_date) \/ ~Truthy(slot_time) THEN None
        ELSE IF slot_date.t = "int" /\ int_to_epic_date_raises(slot_date.n) THEN None
        ELSE AppointmentSlot(
                IF slot_date.t = "int"
                THEN PyStr(isoformat(int_to_epic_date(slot_date.n)))
                ELSE str(slot_date),
                str(slot_time),
                Or(provider, Or(Get(raw, "ProviderName"), Get(raw, "Provider"))),
                Or(department, Or(Get(raw, "DepartmentName"), Get(raw, "Department"))),
                Or(department_id, Or(Get(raw, "DepartmentId"), Get(raw, "DeptId"))),
                Or(Get(raw, "Id"), Get(raw, "SlotId")))


---------------------------------------------------------------------------
\* SlotParser.parse_slots and _parse_slot_item.  Each step gives
\* [raised, slots]: the list it built, or raised = TRUE when an exception
\* left it (nothing in these two functions catches one).

Returned(slots) == [raised |-> FALSE, slots |-> slots]
Raised == [raised |-> TRUE, slots |-> <<>>]

RECURSIVE Flatten(_)
Flatten(lists) == IF lists = <<>> THEN <<>> ELSE Head(lists) \o Flatten(Tail(lists))

\* the lists of consecutive steps put together; an exception in one of
\* them ends the whole
Extend(results) ==
    IF \E i \in DOMAIN results : results[i].raised THEN Raised
    ELSE Returned(Flatten([i \in DOMAIN results |-> results[i].slots]))

\* for slot_data in items: parsed = _parse_single_slot(slot_data, ...);
\* if parsed: slots.append(parsed)
ParsedOf(items, date_override, provider, department, department_id) ==
    LET each == [i \in DOMAIN items |->
                    _parse_single_slot(items[i], date_override, provider,
                                       department, department_id)]
    IN  FilterSeq(each, Range(each) \ {None})

_parse_slot_item_own_date(item) ==
    IF item.t # "dict" THEN Returned(<<>>)
    ELSE LET day_date == Or(Get(item.d, "Date"), Get(item.d, "date"))
             day_slots == Or(GetOr(item.d, "Slots", EmptyList),
                             GetOr(item.d, "slots", EmptyList))
         IN  IF Truthy(day_date) /\ Truthy(day_slots)
             THEN IF Iterate(day_slots).raised THEN Raised
                  ELSE Returned(ParsedOf(Iterate(day_slots).items, None,
                                         None, None, None))
             ELSE Returned(ParsedOf(<<item>>, None, None, None, None))

\* _parse_slot_item: a dict with a date and nested slots is a day container,
\* any other dict a single record; anything else gives no record.
_parse_slot_item(item) ==
    IF item.t # "dict" THEN Returned(<<>>)
    ELSE LET day_date == Or(Get(item.d, "Date"), Get(item.d, "date"))
             day_slots == Or(GetOr(item.d, "Slots", EmptyList),
                             GetOr(item.d, "slots", EmptyList))
         IN  IF Truthy(day_date) /\ Truthy(day_slots)
             THEN IF Iterate(day_slots).raised THEN Raised
                  ELSE Returned(ParsedOf(Iterate(day_slots).items, day_date,
                                         None, None, None))
             ELSE Returned(ParsedOf(<<item>>, None, None, None, None))

ContainerSlotsFirstItem(container) ==
    IF ~Truthy(container) \/ container.t # "list" THEN Returned(<<>>)
    ELSE _parse_slot_item(container.items[1])

\* slot_checker.py 83-91: one of the five top-level containers
ContainerSlots(container) ==
    IF ~Truthy(container) \/ container.t # "list" THEN Returned(<<>>)
    ELSE Extend([i \in DOMAIN container.items |-> _parse_slot_item(container.items[i])])

\* slot_checker.py 95-101: the body of `for provider in providers`
ProviderSlots(provider) ==
    IF provider.t # "dict" THEN Raised
    ELSE LET provider_name == Or(Get(provider.d, "Name"), Get(provider.d, "DisplayName"))
             provider_slots == Or(GetOr(provider.d, "Slots", EmptyList),
                                  GetOr(provider.d, "AvailableSlots", EmptyList))
         IN  IF Iterate(provider_slots).raised THEN Raised
             ELSE Returned(ParsedOf(Iterate(provider_slots).items, None,
                                    provider_name, None, None))

DepartmentSlotsOwnId(dept) ==
    IF dept.t # "dict" THEN Raised
    ELSE LET dept_name == Or(Get(dept.d, "Name"), Get(dept.d, "DisplayName"))
             dept_id == Or(Get(dept.d, "Id"), Get(dept.d, "DepartmentId"))
             dept_slots == Or(GetOr(dept.d, "Slots", EmptyList),
                              GetOr(dept.d, "AvailableSlots", EmptyList))
         IN  IF Iterate(dept_slots).raised THEN Raised
             ELSE Returned(ParsedOf(Iterate(dept_slots).items, None, None,
                                    dept_name, None))

\* slot_checker.py 105-114: the body of `for dept in departments`
DepartmentSlots(dept) ==
    IF dept.t # "dict" THEN Raised
    ELSE LET dept_name == Or(Get(dept.d, "Name"), Get(dept.d, "DisplayName"))
             dept_id == Or(Get(dept.d, "Id"), Get(dept.d, "DepartmentId"))
             dept_slots == Or(GetOr(dept.d, "Slots", EmptyList),
                              GetOr(dept.d, "AvailableSlots", EmptyList))
         IN  IF Iterate(dept_slots).raised THEN Raised
             ELSE Returned(ParsedOf(Iterate(dept_slots).items, None, None,
                                    dept_name, dept_id))

\* parse_slots: the five containers in their order, then the providers,
\* then the departments.  response_data.get on anything but a dict raises.
parse_slots(response_data) ==
    IF response_data.t # "dict" THEN Raised
    ELSE LET d == response_data.d
             slot_containers == <<GetOr(d, "Slots", EmptyList),
                                  GetOr(d, "AvailableSlots", EmptyList),
                                  GetOr(d, "slots", EmptyList),
                                  GetOr(d, "Days", EmptyList),
                                  GetOr(d, "AllDays", EmptyList)>>
             providers == Or(GetOr(d, "Providers", EmptyList),
                             GetOr(d, "providers", EmptyList))
             departments == Or(GetOr(d, "Departments", EmptyList),
                               GetOr(d, "departments", EmptyList))
         IN  Extend(<<
                Extend([i \in DOMAIN slot_containers |-> ContainerSlots(slot_containers[i])]),
                IF Iterate(providers).raised THEN Raised
                ELSE Extend([i \in DOMAIN Iterate(providers).items |->
                                ProviderSlots(Iterate(providers).items[i])]),
                IF Iterate(departments).raised THEN Raised
                ELSE Extend([i \in DOMAIN Iterate(departments).items |->
                                DepartmentSlots(Iterate(departments).items[i])]) >>)

---------------------------------------------------------------------------
\* SlotHistory.  The history file is [kind, data]:
\*   "missing"    no file at the path
\*   "json"       a JSON document, data is the dict it decodes to
\*   "bad_json"   text that is no JSON document (also an empty or a
\*                half-written file): json.load raises JSONDecodeError
\*   "bad_bytes"  bytes that do not decode as text: reading the file raises
\*                UnicodeDecodeError, a ValueError that is neither a
\*                JSONDecodeError nor an IOError
\* A history dict is a function from its keys to their values; the JSON
\* encoding keeps dicts, lists, strings, integers and null as they are.

DefaultHistory == [last_check |-> None, slots |-> <<>>, checks |-> <<>>]

MissingFile == [kind |-> "missing", data |-> DefaultHistory]
BadJsonFile == [kind |-> "bad_json", data |-> DefaultHistory]
BadBytesFile == [kind |-> "bad_bytes", data |-> DefaultHistory]
JsonFile(history) == [kind |-> "json", data |-> history]

\* datetime.utcnow().isoformat() at instant n
utcnow_isoformat(n) == [t |-> "str", utc |-> n]

\* load: [raised, value].  A missing file gives the default; of the errors
\* of reading and decoding, JSONDecodeError and IOError are caught.
load(f) ==
    CASE f.kind = "missing" -> [raised |-> FALSE, value |-> DefaultHistory]
      [] f.kind = "json" -> [raised |-> FALSE, value |-> f.data]
      [] f.kind = "bad_json" -> [raised |-> FALSE, value |-> DefaultHistory]
      [] f.kind = "bad_bytes" -> [raised |-> TRUE, value |-> DefaultHistory]

get_previous_slots_but_last(history) ==
    PySetOf([i \in 1..(Len(history["slots"]) - 1) |-> from_dict(history["slots"][i])])

\* get_previous_slots: the set {from_dict(s) for s in history["slots"]},
\* here before an iteration order is chosen.
get_previous_slots(history) ==
    PySetOf([i \in DOMAIN history["slots"] |-> from_dict(history["slots"][i])])

\* seq[-n:]
LastN(seq, n) ==
    IF Len(seq) <= n THEN seq ELSE SubSeq(seq, Len(seq) - n + 1, Len(seq))

update_keeping_slots(history, current_slots, raw_response, now) ==
    LET check_record == [timestamp |-> utcnow_isoformat(now),
                         slot_count |-> Len(current_slots)]
        checks == LastN(Append(history["checks"], check_record), HistoryCap)
    IN  [last_check |-> utcnow_isoformat(now + 1),
         slots |-> history["slots"]
                     \o [i \in DOMAIN current_slots |-> to_dict(current_slots[i])],
         checks |-> checks] @@ history

update_uncapped(history, current_slots, raw_response, now) ==
    LET check_record == [timestamp |-> utcnow_isoformat(now),
                         slot_count |-> Len(current_slots)]
        checks == Append(history["checks"], check_record)
    IN  [last_check |-> utcnow_isoformat(now + 1),
         slots |-> [i \in DOMAIN current_slots |-> to_dict(current_slots[i])],
         checks |-> checks] @@ history

\* update, up to the save: the dict that update() hands to save(), from the
\* loaded history.  utcnow() is read twice, at `now` and at `now + 1`.
update(history, current_slots, raw_response, now) ==
    LET check_record == [timestamp |-> utcnow_isoformat(now),
                         slot_count |-> Len(current_slots)]
        checks == LastN(Append(history["checks"], check_record), HistoryCap)
        updated == [last_check |-> utcnow_isoformat(now + 1),
                    slots |-> [i \in DOMAIN current_slots |-> to_dict(current_slots[i])],
                    checks |-> checks] @@ history
    IN  IF Truthy(raw_response)
        THEN ("last_raw_response" :> raw_response) @@ updated
        ELSE updated


save_swallowing(f, history, outcome) ==
    CASE outcome = "ok" -> [raised |-> FALSE, file |-> JsonFile(history)]
      [] outcome = "open_failed" -> [raised |-> FALSE, file |-> f]
      [] outcome = "write_failed" -> [raised |-> FALSE, file |-> BadJsonFile]

save_keeping_existing(f, history, outcome) ==
    CASE outcome = "ok" ->
            [raised |-> FALSE, file |-> IF f.kind = "json" THEN f ELSE JsonFile(history)]
      [] outcome = "open_failed" -> [raised |-> TRUE, file |-> f]
      [] outcome = "write_failed" -> [raised |-> TRUE, file |-> BadJsonFile]

save_failing_after_write(f, history, outcome) ==
    CASE outcome = "ok" -> [raised |-> FALSE, file |-> JsonFile(history)]
      [] outcome = "open_failed" -> [raised |-> TRUE, file |-> f]
      [] outcome = "write_failed" -> [raised |-> TRUE, file |-> JsonFile(history)]

\* save: [raised, file].  open(path, "w") may fail, leaving the file as it
\* was; once the file is open it is empty, and a failure of the write leaves
\* a part of the document in it.  Neither error is caught.
save(f, history, outcome) ==
    CASE outcome = "ok" -> [raised |-> FALSE, file |-> JsonFile(history)]
      [] outcome = "open_failed" -> [raised |-> TRUE, file |-> f]
      [] outcome = "write_failed" -> [raised |-> TRUE, file |-> BadJsonFile]

SaveOutcomes == {"ok", "open_failed", "write_failed"}

\* The check record of an update() that read the clock at `now`.
CheckRecord(now, current_slots) ==
    [timestamp |-> utcnow_isoformat(now), slot_count |-> Len(current_slots)]

---------------------------------------------------------------------------
\* check_appointments (src/main.py), one invocation after the other.

Procs == {1, 2}
SerialProcs == {1}

IssueUrl == PyStr("https://github.com/owner/repo/issues/1")

InitialResult ==
    [success |-> FALSE, slots_found |-> 0, new_slots |-> 0,
     notification_sent |-> FALSE, error |-> None]

\* The locals of an invocation, and what it has done so far:
\*   pc             "idle", "compare", "notify", "update", "save", "return",
\*                  "done" (it returned result) or "raised" (an exception
\*                  left check_appointments)
\*   file_before, issues_before   the store and the issues when it started
\*   upstream       what the check met upstream (the kind of the event)
\*   upstream_ok    check_result["success"]
\*   load_kind      the kind of file get_previous_slots found
\*   update_at      the clock when update() read it
\*   notify_called  send_notification was called
\*   save_outcome   how save() ended, "" before it ran
IdleCycle ==
    [pc |-> "idle", dry_run |-> FALSE, upstream |-> "", upstream_ok |-> FALSE,
     slots |-> <<>>,
     previous_slots |-> <<>>, comparison |-> NotCompared,
     history |-> DefaultHistory, result |-> InitialResult,
     update_at |-> 0, raised_in |-> "", load_kind |-> "", notify_called |-> FALSE,
     save_outcome |-> "", file_before |-> MissingFile, issues_before |-> <<>>]

\* What the upstream can hand over.
CycleSlots ==
    { AppointmentSlot(D1, T1, None, None, None, None),
      AppointmentSlot(D1, T1, Rai, Clinic, None, None),
      AppointmentSlot(D2, T2, Lee, None, None, None) }

\* extract_slots gives dicts with these keys (and two more main.py does not
\* read), no two with the same date, time and provider.
SlotData(slot) ==
    ("date" :> slot.date) @@ ("time" :> slot.time) @@ ("provider" :> slot.provider)
        @@ ("department" :> slot.department)

ExtractedLists ==
    {[i \in DOMAIN s |-> SlotData(s[i])] :
        s \in {q \in SeqsUpTo(CycleSlots, MaxSlots) :
                 \A i, j \in DOMAIN q : i # j => q[i] # q[j]}}

\* GetSlots bodies that are JSON documents.
FlatRecord == PyDict(("Date" :> D1) @@ ("Time" :> T1))

ApiBodies ==
    { PyDict(EmptyRaw),
      PyDict("Slots" :> PyList(<<FlatRecord>>)),
      PyDict("Slots" :> PyList(<<FlatRecord, FlatRecord>>)),
      PyDict("Days" :> PyList(<<PyDict(("Date" :> D2) @@
                  ("Slots" :> PyList(<<PyDict("Time" :> T2)>>)))>>)),
      PyDict("Providers" :> PyList(<<Lee>>)),
      PyList(<<FlatRecord>>) }

\* What one check meets upstream: [method, kind, slots, body].
\*   browser: the page could not be reached; the automation raised; the
\*     extraction raised inside extract_slots; the page reached is not the
\*     slots page; the page says no times are available; the page lists slots
\*   api: GetSlots answered with a status other than 200; its body is no
\*     JSON document; its body is the JSON document `body`
UpstreamEvents ==
    {[method |-> "browser", kind |-> k, slots |-> <<>>, body |-> None] :
        k \in {"navigate_failed", "browser_raised", "extract_raised",
               "not_on_slots_page", "no_available_times"}}
    \cup {[method |-> "browser", kind |-> "slots_page", slots |-> s, body |-> None] :
            s \in ExtractedLists \ {<<>>}}
    \cup {[method |-> "api", kind |-> k, slots |-> <<>>, body |-> None] :
            k \in {"http_error", "unparseable_body"}}
    \cup {[method |-> "api", kind |-> "json", slots |-> <<>>, body |-> b] :
            b \in ApiBodies}

\* browser.py 365-436: extract_slots returns [] where the page says that no
\* times are available, where it is not the slots page, and where anything
\* in it raised.
extract_slots(ev) == IF ev.kind = "slots_page" THEN ev.slots ELSE <<>>

\* browser.py 449-515: [success, slots, error]
browser_check(ev) ==
    CASE ev.kind = "navigate_failed" ->
            [success |-> FALSE, slots |-> <<>>,
             error |-> PyStr("Failed to navigate to scheduling page")]
      [] ev.kind = "browser_raised" ->
            [success |-> FALSE, slots |-> <<>>, error |-> PyStr("str(e)")]
      [] OTHER ->
            [success |-> TRUE, slots |-> extract_slots(ev), error |-> None]

check_appointments_browser_with_department_id(ev) ==
    LET browser_result == browser_check(ev)
    IN  IF browser_result.success
        THEN [success |-> TRUE,
              slots |-> [i \in DOMAIN browser_result.slots |->
                            LET slot_data == browser_result.slots[i]
                            IN  AppointmentSlot(GetOr(slot_data, "date", PyStr("")),
                                                GetOr(slot_data, "time", PyStr("")),
                                                Get(slot_data, "provider"),
                                                Get(slot_data, "department"),
                                                Get(slot_data, "department"), None)],
              error |-> None]
        ELSE [success |-> FALSE, slots |-> <<>>, error |-> browser_result.error]

\* main.py 72-128: the browser's slot dicts become AppointmentSlots, with
\* no department_id and no slot_id
check_appointments_browser(ev) ==
    LET browser_result == browser_check(ev)
    IN  IF browser_result.success
        THEN [success |-> TRUE,
              slots |-> [i \in DOMAIN browser_result.slots |->
                            LET slot_data == browser_result.slots[i]
                            IN  AppointmentSlot(GetOr(slot_data, "date", PyStr("")),
                                                GetOr(slot_data, "time", PyStr("")),
                                                Get(slot_data, "provider"),
                                                Get(slot_data, "department"),
                                                None, None)],
              error |-> None]
        ELSE [success |-> FALSE, slots |-> <<>>, error |-> browser_result.error]

\* workflow.py 380-418: get_slots gives [raised, value].  A status other than
\* 200 raises WorkflowError; a body that is no JSON gives the dict
\* {"raw": ..., "error": ...}; result.keys() raises on a document that is
\* no object.
get_slots(ev) ==
    CASE ev.kind = "http_error" -> [raised |-> TRUE, value |-> None]
      [] ev.kind = "unparseable_body" ->
            [raised |-> FALSE,
             value |-> PyDict(("raw" :> PyStr("<html>")) @@
                              ("error" :> PyStr("JSON parse failed")))]
      [] OTHER -> IF ev.body.t = "dict"
                  THEN [raised |-> FALSE, value |-> ev.body]
                  ELSE [raised |-> TRUE, value |-> None]

\* main.py 33-69: run_full_workflow returns what get_slots returns; any
\* exception ends in success = False
check_appointments_api(ev) ==
    LET response == get_slots(ev)
    IN  IF response.raised \/ parse_slots(response.value).raised
        THEN [success |-> FALSE, slots |-> <<>>, error |-> PyStr("str(e)")]
        ELSE [success |-> TRUE, slots |-> parse_slots(response.value).slots,
              error |-> None]

\* main.py 161-168
CheckResult(ev) ==
    IF ev.method = "browser" THEN check_appointments_browser(ev)
    ELSE check_appointments_api(ev)

\* Every iteration order of a set.
Orders(S) == {seq \in [1..Cardinality(S) -> S] : Range(seq) = S}

FetchIgnoringFailure(p, dry_run, ev) ==
    /\ cyc[p].pc \in {"idle", "done", "raised"}
    /\ clock < MaxClock
    /\ LET check_result == CheckResult(ev) IN
       cyc' = [cyc EXCEPT ![p] =
                 [IdleCycle EXCEPT !.dry_run = dry_run, !.file_before = file,
                                   !.issues_before = issues,
                                   !.upstream = ev.kind,
                                   !.upstream_ok = check_result.success,
                                   !.pc = "compare",
                                   !.slots = check_result.slots,
                                   !.result.slots_found = Len(check_result.slots)]]
    /\ clock' = clock + 1
    /\ UNCHANGED <<file, issues, appended>>

\* main.py 149-177: a new invocation; the upstream is asked for the slots,
\* and its failure ends the cycle.
Fetch(p, dry_run, ev) ==
    /\ cyc[p].pc \in {"idle", "done", "raised"}
    /\ clock < MaxClock
    /\ LET check_result == CheckResult(ev)
           fresh == [IdleCycle EXCEPT !.dry_run = dry_run, !.file_before = file,
                                      !.issues_before = issues,
                                      !.upstream = ev.kind,
                                      !.upstream_ok = check_result.success]
       IN  cyc' = [cyc EXCEPT ![p] =
                IF ~check_result.success
                THEN [fresh EXCEPT !.pc = "done", !.result.error = check_result.error]
                ELSE [fresh EXCEPT !.pc = "compare",
                                   !.slots = check_result.slots,
                                   !.result.slots_found = Len(check_result.slots)]]
    /\ clock' = clock + 1
    /\ UNCHANGED <<file, issues, appended>>

\* main.py 179-185: history.get_previous_slots() and compare_slots
LoadAndCompare(p) ==
    /\ cyc[p].pc = "compare"
    /\ LET loaded == load(file)
       IN  IF loaded.raised
           THEN cyc' = [cyc EXCEPT ![p].pc = "raised",
                                   ![p].raised_in = "get_previous_slots",
                                   ![p].load_kind = file.kind]
           ELSE \E prev \in Orders(get_previous_slots(loaded.value)) :
                  LET cmp == compare_slots(cyc[p].slots, prev)
                  IN  cyc' = [cyc EXCEPT ![p].pc = "notify",
                                         ![p].load_kind = file.kind,
                                         ![p].previous_slots = prev,
                                         ![p].comparison = [called |-> TRUE] @@ cmp,
                                         ![p].result.new_slots = Len(cmp.new)]
    /\ UNCHANGED <<file, clock, issues, appended>>

NotifyIgnoringDryRun(p) ==
    /\ cyc[p].pc = "notify"
    /\ LET new_slots == cyc[p].comparison.new
           next_pc == "update"
       IN  IF new_slots # <<>>
           THEN \E issue_url \in {None, IssueUrl} :
                  /\ issues' = IF Truthy(issue_url) THEN Append(issues, new_slots)
                               ELSE issues
                  /\ cyc' = [cyc EXCEPT ![p].pc = next_pc,
                                        ![p].notify_called = TRUE,
                                        ![p].result.notification_sent = Truthy(issue_url)]
           ELSE /\ issues' = issues
                /\ cyc' = [cyc EXCEPT ![p].pc = next_pc]
    /\ UNCHANGED <<file, clock, appended>>

NotifyFailureEndsCycle(p) ==
    /\ cyc[p].pc = "notify"
    /\ LET new_slots == cyc[p].comparison.new
           next_pc == IF cyc[p].dry_run THEN "return" ELSE "update"
       IN  IF new_slots # <<>> /\ ~cyc[p].dry_run
           THEN \E issue_url \in {None, IssueUrl} :
                  /\ issues' = IF Truthy(issue_url) THEN Append(issues, new_slots)
                               ELSE issues
                  /\ cyc' = [cyc EXCEPT ![p].pc = IF Truthy(issue_url) THEN next_pc
                                                  ELSE "done",
                                        ![p].notify_called = TRUE,
                                        ![p].result.notification_sent = Truthy(issue_url)]
           ELSE /\ issues' = issues
                /\ cyc' = [cyc EXCEPT ![p].pc = next_pc]
    /\ UNCHANGED <<file, clock, appended>>

\* main.py 187-206: send_notification when there are new slots and this is
\* no dry run; it returns the issue's URL, or None when no issue was made.
Notify(p) ==
    /\ cyc[p].pc = "notify"
    /\ LET new_slots == cyc[p].comparison.new
           next_pc == IF cyc[p].dry_run THEN "return" ELSE "update"
       IN  IF new_slots # <<>> /\ ~cyc[p].dry_run
           THEN \E issue_url \in {None, IssueUrl} :
                  /\ issues' = IF Truthy(issue_url) THEN Append(issues, new_slots)
                               ELSE issues
                  /\ cyc' = [cyc EXCEPT ![p].pc = next_pc,
                                        ![p].notify_called = TRUE,
                                        ![p].result.notification_sent = Truthy(issue_url)]
           ELSE /\ issues' = issues
                /\ cyc' = [cyc EXCEPT ![p].pc = next_pc]
    /\ UNCHANGED <<file, clock, appended>>

\* slot_checker.py 236-256: update() loads the history and builds the new one
UpdateLoad(p) ==
    /\ cyc[p].pc = "update"
    /\ LET loaded == load(file)
       IN  IF loaded.raised
           THEN /\ cyc' = [cyc EXCEPT ![p].pc = "raised", ![p].raised_in = "update"]
                /\ clock' = clock
           ELSE /\ cyc' = [cyc EXCEPT ![p].pc = "save",
                                      ![p].update_at = clock,
                                      ![p].history =
                                          update(loaded.value, cyc[p].slots, None, clock)]
                /\ clock' = clock + 2
    /\ UNCHANGED <<file, issues, appended>>

\* slot_checker.py 258: update() saves the new history
Save(p) ==
    /\ cyc[p].pc = "save"
    /\ \E outcome \in SaveOutcomes :
         LET saved == save(file, cyc[p].history, outcome)
         IN  /\ file' = saved.file
             /\ appended' = IF outcome = "ok"
                            THEN Append(appended, CheckRecord(cyc[p].update_at, cyc[p].slots))
                            ELSE appended
             /\ cyc' = [cyc EXCEPT ![p].save_outcome = outcome,
                                   ![p].pc = IF saved.raised THEN "raised" ELSE "return",
                                   ![p].raised_in = IF saved.raised THEN "save" ELSE ""]
    /\ UNCHANGED <<clock, issues>>

\* main.py 208-209
Return(p) ==
    /\ cyc[p].pc = "return"
    /\ cyc' = [cyc EXCEPT ![p].pc = "done", ![p].result.success = TRUE]
    /\ UNCHANGED <<file, clock, issues, appended>>

\* main.py 249-270: the exit status of the process whose invocation ended
\* as c: sys.exit(0 if result["success"] else 1); an exception that left
\* check_appointments ends the interpreter with status 1.
exit_status(c) ==
    IF c.pc = "raised" THEN 1
    ELSE IF c.result.success THEN 0 ELSE 1

---------------------------------------------------------------------------
\* run_full_workflow (src/src/workflow.py).  wf is
\*   pc             the step it is about to take; "returned" or "raised" at the end
\*   requests       the endpoints it has sent a request to, in order
\*   widget_header  session.widget_header: "" or the request that supplied it
\*   error          the exception run_full_workflow ended in, "" if none
\*   response       what it returned

NewWorkflow ==
    [pc |-> "load_embedded_page", requests |-> <<>>, widget_header |-> "",
     response |-> None, error |-> ""]

\* How the server answers a request: 200 with a widget header in the body,
\* 200 without one, another status, or no answer at all (the HTTP client
\* raises).
Replies == {"ok_with_header", "ok", "http_error", "network_error"}

\* the header a response carries replaces the session's; it is named after
\* the request whose response supplied it
Header(endpoint, reply) ==
    IF reply = "ok_with_header" THEN endpoint ELSE wf.widget_header

\* the exception a request ends in, "" when it returns
ErrorOf(reply) ==
    CASE reply = "http_error" -> "WorkflowError"
      [] reply = "network_error" -> "RequestError"
      [] OTHER -> ""

\* the request is sent and logged: [endpoint, ok]
Sent(endpoint, reply) ==
    Append(wf.requests, [endpoint |-> endpoint, ok |-> reply \in {"ok_with_header", "ok"}])

\* workflow.py 463-464 and 113-155: step 0; its WorkflowError is not caught
load_embedded_page(reply) ==
    /\ wf.pc = "load_embedded_page"
    /\ wf' = [wf EXCEPT !.requests = Sent("embedded", reply),
                        !.widget_header = Header("embedded", reply),
                        !.error = ErrorOf(reply),
                        !.pc = IF reply \in {"http_error", "network_error"}
                               THEN "raised" ELSE "initialize_workflow"]

\* workflow.py 466-470 and 178-231: step 1; a WorkflowError is logged and
\* the workflow continues, any other exception leaves run_full_workflow
initialize_workflow(reply) ==
    /\ wf.pc = "initialize_workflow"
    /\ wf' = [wf EXCEPT !.requests = Sent("init_workflow", reply),
                        !.widget_header = Header("init_workflow", reply),
                        !.error = IF reply = "network_error" THEN ErrorOf(reply) ELSE "",
                        !.pc = IF reply = "network_error"
                               THEN "raised" ELSE "validate_location"]

\* workflow.py 472-484 and 350-382: the questionnaire steps are a comment;
\* step 3 follows, its WorkflowError logged and passed over
validate_location(reply) ==
    /\ wf.pc = "validate_location"
    /\ wf' = [wf EXCEPT !.requests = Sent("evaluate_location", reply),
                        !.widget_header = Header("evaluate_location", reply),
                        !.error = IF reply = "network_error" THEN ErrorOf(reply) ELSE "",
                        !.pc = IF reply = "network_error"
                               THEN "raised" ELSE "get_slots"]

\* workflow.py 486-488 and 384-418: step 4, whose result is returned
GetSlots(ev) ==
    /\ wf.pc = "get_slots"
    /\ ev.method = "api"
    /\ wf' = [wf EXCEPT !.requests = Sent("get_slots", IF ev.kind = "http_error"
                                                       THEN "http_error" ELSE "ok"),
                        !.response = get_slots(ev).value,
                        !.error = IF ~get_slots(ev).raised THEN ""
                                  ELSE IF ev.kind = "http_error" THEN "WorkflowError"
                                  ELSE "AttributeError",
                        !.pc = IF get_slots(ev).raised THEN "raised" ELSE "returned"]

---------------------------------------------------------------------------
\* The raw records the parser harness draws: each key is absent or holds
\* one of a few values.

Field(k, values) == {EmptyRaw} \cup {k :> v : v \in values}

DisplayKeys == {"ProviderName", "Provider", "DepartmentName", "Department"}

RawRecords ==
    { a @@ b @@ c @@ d @@ e @@ f @@ g @@ h :
        a \in Field("Date", {D1, PyInt(67800), PyStr("")}),
        b \in Field("date", {D2}),
        c \in Field("Time", {T1}),
        d \in Field("DepartmentId", {Dept, PyStr("")}),
        e \in Field("DeptId", {PyStr("3202011")}),
        f \in Field("ProviderName", {Rai, Lee}),
        g \in Field("Provider", {Lee}),
        h \in Field("DepartmentName", {Clinic}) }

Restrict(raw, keys) == [k \in (DOMAIN raw) \cap keys |-> raw[k]]

\* The two records agree on every key that is no display text.
DifferOnlyInDisplayText(a, b) ==
    Restrict(a, (DOMAIN a) \ DisplayKeys) = Restrict(b, (DOMAIN b) \ DisplayKeys)

NotParsed == [called |-> FALSE, slots |-> <<None, None>>]

ParserInit ==
    /\ data \in RawRecords
    /\ data2 \in {r \in RawRecords :
                    \/ DifferOnlyInDisplayText(data, r)
                    \/ DOMAIN r \subseteq {"Date", "Time"}}
    /\ parsed = NotParsed

\* The two records are normalized, each on its own.
ParsePair ==
    /\ ~parsed.called
    /\ parsed' = [called |-> TRUE,
                  slots |-> <<_parse_single_slot(PyDict(data), None, None, None, None),
                              _parse_single_slot(PyDict(data2), None, None, None, None)>>]
    /\ UNCHANGED <<data, data2, current, previous, comparison>>

\* Both gave a record: a current list holding the first is put against a
\* previous set holding the second.
Feed ==
    /\ parsed.called
    /\ parsed.slots[1] # None /\ parsed.slots[2] # None
    /\ current = <<>> /\ previous = <<>> /\ ~comparison.called
    /\ current' = <<parsed.slots[1]>>
    /\ previous' = <<parsed.slots[2]>>
    /\ UNCHANGED <<data, data2, parsed, comparison>>

---------------------------------------------------------------------------
\* The GetSlots documents the parse_slots harness draws.

\* items of a list of flat records: each of Date, Time and ProviderName is
\* absent or holds a value; and items that are no dict
FlatRecords ==
    { PyDict(a @@ b @@ c) :
        a \in Field("Date", {D1, PyInt(67800), PyStr("")}),
        b \in Field("Time", {T1}),
        c \in Field("ProviderName", {Rai}) }

OddItems == {PyInt(5), None, PyStr("x")}

ContainerKeys == {"Slots", "AvailableSlots", "slots", "Days", "AllDays"}

FlatPayloads ==
    { PyDict(k :> PyList(items)) :
        k \in {"Slots"}, items \in SeqsUpTo(FlatRecords \cup OddItems, MaxItems) }
    \cup { PyDict(k :> v) : k \in ContainerKeys, v \in {PyInt(7), PyStr("x"), None,
                                                        PyList(<<FlatRecord>>)} }

\* entries of the nested list of a day container
NestedItems ==
    { PyDict("Time" :> T1),
      PyDict(("Time" :> T2) @@ ("Date" :> D1)),
      PyDict(("Time" :> T1) @@ ("ProviderName" :> Rai)),
      PyDict("Date" :> D1),
      PyInt(3) }

DayContainers ==
    { PyDict(a @@ b) :
        a \in {dk :> dv : dk \in {"Date", "date"}, dv \in {D2, PyInt(67800)}},
        b \in {sk :> sv : sk \in {"Slots", "slots"},
                          sv \in {PyList(s) : s \in SeqsUpTo(NestedItems, MaxItems)}
                                 \cup {PyInt(7)}} }

DayPayloads ==
    { PyDict(k :> PyList(<<day>>)) : k \in ContainerKeys, day \in DayContainers }
    \cup { PyDict("Days" :> PyList(<<day, FlatRecord>>)) : day \in DayContainers }

\* records nested under a provider or a department
Nested1 == FlatRecord
Nested2 == PyDict(("Date" :> D2) @@ ("Time" :> T2) @@ ("ProviderName" :> Lee) @@
                  ("DepartmentName" :> PyStr("Oral Surgery")) @@
                  ("DepartmentId" :> PyStr("3202011")))

NestedLists ==
    { a @@ b :
        a \in Field("Slots", {PyList(<<Nested1>>), PyList(<<Nested1, Nested2>>), PyInt(5)}),
        b \in Field("AvailableSlots", {PyList(<<Nested2>>)}) }

ProviderItems ==
    { PyDict(a @@ b @@ c) :
        a \in Field("Name", {Rai, PyStr("")}),
        b \in Field("DisplayName", {Lee}),
        c \in NestedLists }
    \cup {Lee, None}

DepartmentItems ==
    { PyDict(a @@ b @@ c) :
        a \in Field("Name", {Clinic}),
        b \in {EmptyRaw, "Id" :> Dept, "Id" :> PyStr(""), "DepartmentId" :> Dept},
        c \in NestedLists }
    \cup {Clinic}

NestedPayloads ==
    { PyDict((k :> PyList(items)) @@ s) :
        k \in {"Providers", "providers"},
        items \in SeqsUpTo(ProviderItems, MaxContainers),
        s \in Field("Slots", {PyList(<<FlatRecord>>)}) }
    \cup { PyDict((k :> PyList(items)) @@ s) :
        k \in {"Departments", "departments"},
        items \in SeqsUpTo(DepartmentItems, MaxContainers),
        s \in Field("Slots", {PyList(<<FlatRecord>>)}) }
    \cup { PyDict(k :> v) :
        k \in {"Providers", "providers", "Departments", "departments"},
        v \in {None, PyInt(1), PyDict("Name" :> Rai)} }

Payloads == FlatPayloads \cup DayPayloads \cup NestedPayloads

NotParsedPayload == [called |-> FALSE, raised |-> FALSE, slots |-> <<>>]

PayloadInit ==
    /\ document \in Payloads
    /\ parse_result = NotParsedPayload

\* slots = SlotParser.parse_slots(response_data)
ParseResponse ==
    /\ ~parse_result.called
    /\ parse_result' = [called |-> TRUE] @@ parse_slots(document)
    /\ UNCHANGED document

---------------------------------------------------------------------------
\* The raw records of the key-priority harness: one logical field at a
\* time, each of its keys absent, null, empty or holding a value of its own;
\* and records whose Date is a day number.

DateKeyOrder == <<"Date", "date", "AppointmentDate", "StartDate">>
TimeKeyOrder == <<"Time", "time", "StartTime", "DisplayTime">>
ProviderKeyOrder == <<"ProviderName", "Provider">>
DepartmentKeyOrder == <<"DepartmentName", "Department">>
DepartmentIdKeyOrder == <<"DepartmentId", "DeptId">>
SlotIdKeyOrder == <<"Id", "SlotId">>

\* the value key number i of a field holds when it holds one
ValueOf(keys, i) == PyStr(keys[i] \o "-value")

Variants2(keys) ==
    { a @@ b :
        a \in Field(keys[1], {ValueOf(keys, 1), PyStr(""), None}),
        b \in Field(keys[2], {ValueOf(keys, 2), PyStr(""), None}) }

Variants4(keys) ==
    { a @@ b : a \in Variants2(<<keys[1], keys[2]>>),
               b \in Variants2(<<keys[3], keys[4]>>) }

DayNumbers == {0, 1, 59, 60, 67800, 100000}

FieldRecords ==
    { v @@ ("Time" :> T1) : v \in Variants4(DateKeyOrder) }
    \cup { v @@ ("Date" :> D1) : v \in Variants4(TimeKeyOrder) }
    \cup { v @@ FlatRecord.d :
             v \in Variants2(ProviderKeyOrder) \cup Variants2(DepartmentKeyOrder)
                   \cup Variants2(DepartmentIdKeyOrder) \cup Variants2(SlotIdKeyOrder) }
    \cup { ("Date" :> PyInt(n)) @@ ("Time" :> T1) : n \in DayNumbers }
    \cup { ("Date" :> PyInt(n)) @@ ("date" :> D2) @@ ("Time" :> T1) : n \in DayNumbers }

FieldsInit ==
    /\ data \in FieldRecords
    /\ data2 = EmptyRaw
    /\ parsed = NotParsed

---------------------------------------------------------------------------
\* The epoch harness: a day number, int_to_epic_date of it and of the next
\* one, and epic_date_to_int of the date it gave.

NotConverted == [called |-> FALSE, date |-> epoch, next_date |-> epoch, back |-> 0]

EpochInit ==
    /\ epic_int \in 0..MaxDayNumber
    /\ converted = NotConverted

Convert ==
    /\ ~converted.called
    /\ converted' = [called |-> TRUE,
                     date |-> int_to_epic_date(epic_int),
                     next_date |-> int_to_epic_date(epic_int + 1),
                     back |-> epic_date_to_int(int_to_epic_date(epic_int))]
    /\ UNCHANGED epic_int

---------------------------------------------------------------------------
\* The specifications.

CycleIdle ==
    /\ file = MissingFile
    /\ clock = 0
    /\ issues = <<>>
    /\ appended = <<>>
    /\ cyc = [p \in Procs |-> IdleCycle]

CompareIdle ==
    /\ current = <<>>
    /\ previous = <<>>
    /\ comparison = NotCompared

ParserIdle ==
    /\ data = EmptyRaw
    /\ data2 = EmptyRaw
    /\ parsed = NotParsed

EpochIdle ==
    /\ epic_int = 0
    /\ converted = NotConverted

WorkflowIdle == wf = NewWorkflow

PayloadIdle ==
    /\ document = PyDict(EmptyRaw)
    /\ parse_result = NotParsedPayload

\* The check cycles, one at a time, against a store that starts missing or
\* unreadable.
Init ==
    /\ file \in {MissingFile, BadJsonFile, BadBytesFile}
    /\ clock = 0
    /\ issues = <<>>
    /\ appended = <<>>
    /\ cyc = [p \in Procs |-> IdleCycle]
    /\ CompareIdle
    /\ ParserIdle
    /\ PayloadIdle /\ EpochIdle /\ WorkflowIdle

Next ==
    \/ \E p \in SerialProcs, dry_run \in BOOLEAN, ev \in UpstreamEvents :
         Fetch(p, dry_run, ev) /\ UNCHANGED <<compareVars, parserVars, payloadVars, epochVars, wf>>
    \/ \E p \in SerialProcs : LoadAndCompare(p) /\ UNCHANGED <<compareVars, parserVars, payloadVars, epochVars, wf>>
    \/ \E p \in SerialProcs : Notify(p) /\ UNCHANGED <<compareVars, parserVars, payloadVars, epochVars, wf>>
    \/ \E p \in SerialProcs : UpdateLoad(p) /\ UNCHANGED <<compareVars, parserVars, payloadVars, epochVars, wf>>
    \/ \E p \in SerialProcs : Save(p) /\ UNCHANGED <<compareVars, parserVars, payloadVars, epochVars, wf>>
    \/ \E p \in SerialProcs : Return(p) /\ UNCHANGED <<compareVars, parserVars, payloadVars, epochVars, wf>>

Spec == Init /\ [][Next]_vars

\* compare_slots on every current list and previous set within the bounds.
InitCompare == CycleIdle /\ ParserIdle /\ PayloadIdle /\ EpochIdle /\ WorkflowIdle /\ CompareInit

NextCompare == Compare /\ UNCHANGED <<cycleVars, parserVars, payloadVars, epochVars, wf>>

SpecCompare == InitCompare /\ [][NextCompare]_vars

\* _parse_single_slot on pairs of raw records, then compare_slots on the
\* two records.
InitParser == CycleIdle /\ CompareIdle /\ PayloadIdle /\ EpochIdle /\ WorkflowIdle /\ ParserInit

NextParser ==
    \/ ParsePair /\ UNCHANGED <<cycleVars, payloadVars, epochVars, wf>>
    \/ Feed /\ UNCHANGED <<cycleVars, payloadVars, epochVars, wf>>
    \/ (parsed.called /\ current # <<>> /\ Compare /\ UNCHANGED <<cycleVars, parserVars, payloadVars, epochVars, wf>>)

SpecParser == InitParser /\ [][NextParser]_vars


\* parse_slots on every document of Payloads.
InitPayload == CycleIdle /\ CompareIdle /\ ParserIdle /\ EpochIdle /\ WorkflowIdle /\ PayloadInit

NextPayload == ParseResponse /\ UNCHANGED <<cycleVars, compareVars, parserVars, epochVars, wf>>

SpecPayload == InitPayload /\ [][NextPayload]_vars

\* _parse_single_slot on every record of FieldRecords.
InitFields == CycleIdle /\ CompareIdle /\ PayloadIdle /\ EpochIdle /\ WorkflowIdle /\ FieldsInit

NextFields == ParsePair /\ UNCHANGED <<cycleVars, payloadVars, epochVars, wf>>

SpecFields == InitFields /\ [][NextFields]_vars

\* The two epoch conversions on every day number up to MaxDayNumber.
InitEpoch ==
    CycleIdle /\ CompareIdle /\ ParserIdle /\ PayloadIdle /\ WorkflowIdle /\ EpochInit

NextEpoch == Convert /\ UNCHANGED <<cycleVars, compareVars, parserVars, payloadVars, wf>>

SpecEpoch == InitEpoch /\ [][NextEpoch]_vars

\* One run of run_full_workflow under every sequence of server answers.
InitWorkflow ==
    CycleIdle /\ CompareIdle /\ ParserIdle /\ PayloadIdle /\ EpochIdle /\ WorkflowIdle

NextWorkflow ==
    \/ \E reply \in Replies : load_embedded_page(reply)
          /\ UNCHANGED <<cycleVars, compareVars, parserVars, payloadVars, epochVars>>
    \/ \E reply \in Replies : initialize_workflow(reply)
          /\ UNCHANGED <<cycleVars, compareVars, parserVars, payloadVars, epochVars>>
    \/ \E reply \in Replies : validate_location(reply)
          /\ UNCHANGED <<cycleVars, compareVars, parserVars, payloadVars, epochVars>>
    \/ \E ev \in UpstreamEvents : GetSlots(ev)
          /\ UNCHANGED <<cycleVars, compareVars, parserVars, payloadVars, epochVars>>

SpecWorkflow == InitWorkflow /\ [][NextWorkflow]_vars

\* update() called again and again on a store that starts empty, every save
\* succeeding; the slots passed are drawn once.
InitCap ==
    /\ CycleIdle
    /\ ParserIdle
    /\ PayloadIdle /\ EpochIdle /\ WorkflowIdle
    /\ current \in SeqsUpTo(CycleSlots, MaxSlots)
    /\ previous = <<>>
    /\ comparison = NotCompared

\* slot_checker.py 224-259: one whole update(current)
HistoryUpdate ==
    /\ Len(appended) < MaxUpdates
    /\ ~load(file).raised
    /\ file' = save(file, update(load(file).value, current, None, clock), "ok").file
    /\ appended' = Append(appended, CheckRecord(clock, current))
    /\ clock' = clock + 2
    /\ UNCHANGED <<issues, cyc>>

NextCap == HistoryUpdate /\ UNCHANGED <<compareVars, parserVars, payloadVars, epochVars, wf>>

SpecCap == InitCap /\ [][NextCap]_vars

\* Two invocations of check_appointments at once against the same history
\* file (two processes started by overlapping schedules), neither a dry
\* run; nothing orders their steps.
RaceEvents ==
    {ev \in UpstreamEvents :
        ev.kind = "no_available_times" \/ (ev.kind = "slots_page" /\ Len(ev.slots) = 1)}

NextRace ==
    \/ \E p \in Procs, ev \in RaceEvents :
         Fetch(p, FALSE, ev) /\ UNCHANGED <<compareVars, parserVars, payloadVars, epochVars, wf>>
    \/ \E p \in Procs : LoadAndCompare(p) /\ UNCHANGED <<compareVars, parserVars, payloadVars, epochVars, wf>>
    \/ \E p \in Procs : Notify(p) /\ UNCHANGED <<compareVars, parserVars, payloadVars, epochVars, wf>>
    \/ \E p \in Procs : UpdateLoad(p) /\ UNCHANGED <<compareVars, parserVars, payloadVars, epochVars, wf>>
    \/ \E p \in Procs : Save(p) /\ UNCHANGED <<compareVars, parserVars, payloadVars, epochVars, wf>>
    \/ \E p \in Procs : Return(p) /\ UNCHANGED <<compareVars, parserVars, payloadVars, epochVars, wf>>

SpecRace == Init /\ [][NextRace]_vars

\* update(current_slots, raw_response) called again and again, with and
\* without a raw response, every save succeeding; `current` and `document`
\* hold the arguments of the last call.
RawResponses ==
    {None, PyDict(EmptyRaw), PyDict("Slots" :> PyList(<<FlatRecord>>)),
     PyDict("raw" :> PyStr("<html>"))}

\* slot_checker.py 224-259: one whole update(current_slots, raw_response)
HistoryUpdateRaw ==
    /\ Len(appended) < MaxRawUpdates
    /\ ~load(file).raised
    /\ \E current_slots \in {<<>>} \cup {<<s>> : s \in CycleSlots},
          raw_response \in RawResponses :
         /\ current' = current_slots
         /\ document' = raw_response
         /\ file' = save(file, update(load(file).value, current_slots,
                                      raw_response, clock), "ok").file
         /\ appended' = Append(appended, CheckRecord(clock, current_slots))
    /\ clock' = clock + 2
    /\ UNCHANGED <<issues, cyc, previous, comparison, parse_result, parserVars,
                   epochVars, wf>>

InitRaw ==
    /\ file \in {MissingFile, BadJsonFile}
    /\ clock = 0
    /\ issues = <<>>
    /\ appended = <<>>
    /\ cyc = [p \in Procs |-> IdleCycle]
    /\ CompareIdle /\ ParserIdle /\ PayloadIdle /\ EpochIdle /\ WorkflowIdle

SpecRaw == InitRaw /\ [][HistoryUpdateRaw]_vars

\* __eq__ and __hash__ on every pair of records over these field values,
\* and the membership test built on them.
FieldValues ==
    [date : {D1, D2}, time : {T1, T2}, provider : {None, Rai, Lee},
     department : {None, Clinic}, department_id : {None, PyStr(""), Dept},
     slot_id : {None, PyStr("slot-1")}]

InitIdentity ==
    /\ CycleIdle
    /\ ParserIdle
    /\ PayloadIdle /\ EpochIdle /\ WorkflowIdle
    /\ current \in [1..1 -> FieldValues]
    /\ previous \in [1..1 -> FieldValues]
    /\ comparison = NotCompared

SpecIdentity == InitIdentity /\ [][NextCompare]_vars


---------------------------------------------------------------------------
\* The properties.

IdentityKey(slot) == <<slot.date, slot.time, slot.department_id>>

KeysOf(seq) == {IdentityKey(seq[i]) : i \in DOMAIN seq}

SetMax(S) == CHOOSE m \in S : \A k \in S : k <= m

RECURSIVE PickInOrder(_, _)
\* the members of seq at the positions idx, in the order of seq
PickInOrder(seq, idx) ==
    IF idx = {} THEN <<>>
    ELSE Append(PickInOrder(seq, idx \ {SetMax(idx)}), seq[SetMax(idx)])

Aug5 == AppointmentSlot(D1, T1, None, None, None, None)
Aug6 == AppointmentSlot(D2, T2, None, None, None, None)

\* C1: 'new' is exactly the records of current whose identity key does not
\* occur in previous, in the order they have in current; with previous =
\* {Aug5} and current = [Aug5, Aug6], new = [Aug6], unchanged = [Aug5] and
\* removed = [].
C1_NewIsCurrentNotInPrevious ==
    comparison.called =>
        /\ comparison.new =
              PickInOrder(current, {i \in DOMAIN current :
                                      IdentityKey(current[i]) \notin KeysOf(previous)})
        /\ (current = <<Aug5, Aug6>> /\ previous = <<Aug5>>) =>
              /\ comparison.new = <<Aug6>>
              /\ comparison.unchanged = <<Aug5>>
              /\ comparison.removed = <<>>

C1_Witness ==
    /\ comparison.called
    /\ current = <<Aug5, Aug6>>
    /\ previous = <<Aug5>>
    /\ comparison.new = <<Aug6>>

\* C2: the keys of new and unchanged together are the keys of current, and
\* the keys of removed and unchanged together are the keys of previous.
C2_PartitionCompleteness ==
    comparison.called =>
        /\ KeysOf(comparison.new) \cup KeysOf(comparison.unchanged) = KeysOf(current)
        /\ KeysOf(comparison.removed) \cup KeysOf(comparison.unchanged) = KeysOf(previous)

C2_Witness ==
    /\ comparison.called
    /\ comparison.new # <<>>
    /\ comparison.removed # <<>>
    /\ comparison.unchanged # <<>>

\* C3: 'removed' holds exactly the records of previous whose identity key
\* does not occur in current, each once, and none of its keys occurs in new
\* or in unchanged.
C3_RemovedIsPreviousNotInCurrent ==
    comparison.called =>
        /\ Range(comparison.removed) =
              {s \in Range(previous) : IdentityKey(s) \notin KeysOf(current)}
        /\ Len(comparison.removed) = Cardinality(Range(comparison.removed))
        /\ KeysOf(comparison.removed)
              \cap (KeysOf(comparison.new) \cup KeysOf(comparison.unchanged)) = {}

C3_Witness ==
    /\ comparison.called
    /\ Len(comparison.removed) = 1
    /\ Len(previous) = 2
    /\ comparison.new # <<>>
    /\ \E i \in DOMAIN current, j \in DOMAIN previous :
          /\ IdentityKey(current[i]) = IdentityKey(previous[j])
          /\ current[i] # previous[j]

\* C4: two records are equal exactly when date, time and department_id are
\* equal (None equal to None only), equal records have the same hash, the
\* membership test follows the same three fields, and a change of provider,
\* department or slot_id changes neither the equality class nor the hash.
C4_IdentityIsDateTimeDepartmentId ==
    LET a == current[1]
        b == previous[1]
        same == a.date = b.date /\ a.time = b.time
                  /\ a.department_id = b.department_id
    IN  /\ SlotEq(a, b) <=> same
        /\ same => SlotHash(a) = SlotHash(b)
        /\ (a.department_id = None /\ SlotEq(a, b)) => b.department_id = None
        /\ comparison.called => (comparison.unchanged = <<a>> <=> same)
        /\ comparison.called => (comparison.new = <<a>> <=> ~same)
        /\ \A other \in {[a EXCEPT !.provider = b.provider],
                         [a EXCEPT !.department = b.department],
                         [a EXCEPT !.slot_id = b.slot_id]} :
              SlotEq(other, a) /\ SlotHash(other) = SlotHash(a)

C4_Witness ==
    /\ comparison.called
    /\ current[1] # previous[1]
    /\ current[1].provider # previous[1].provider
    /\ current[1].slot_id # previous[1].slot_id
    /\ SlotEq(current[1], previous[1])
    /\ comparison.unchanged = current

\* C5: two raw records that differ in provider / department display text
\* only are both dropped or both normalized, to records that compare equal;
\* a current list holding one put against a previous set holding the other
\* has no new and no removed record.
C5_IdentityInsensitive ==
    (parsed.called /\ DifferOnlyInDisplayText(data, data2)) =>
        /\ parsed.slots[1] = None <=> parsed.slots[2] = None
        /\ parsed.slots[1] # None =>
              /\ SlotEq(parsed.slots[1], parsed.slots[2])
              /\ IdentityKey(parsed.slots[1]) = IdentityKey(parsed.slots[2])
        /\ comparison.called =>
              /\ comparison.new = <<>>
              /\ comparison.removed = <<>>
              /\ comparison.unchanged = current

C5_Witness ==
    /\ comparison.called
    /\ DifferOnlyInDisplayText(data, data2)
    /\ current = <<parsed.slots[1]>>
    /\ previous = <<parsed.slots[2]>>
    /\ parsed.slots[1].provider # parsed.slots[2].provider
    /\ parsed.slots[1].department # parsed.slots[2].department
    /\ parsed.slots[1].department_id = Dept
    /\ comparison.new = <<>>
    /\ comparison.removed = <<>>

Min(a, b) == IF a <= b THEN a ELSE b

\* C6: after n update() calls on a store that started empty, the check log
\* on disk holds min(n, 100) entries, the last min(n, 100) appended, in the
\* order of appending; after 150 updates, entries 51..150.
C6_HistoryCap ==
    LET n == Len(appended)
    IN  /\ n = 0 => file = MissingFile
        /\ n > 0 =>
              /\ file.kind = "json"
              /\ Len(file.data["checks"]) = Min(n, 100)
              /\ \A i \in 1..Min(n, 100) :
                    file.data["checks"][i] = appended[n - Min(n, 100) + i]
        /\ n = 150 => file.data["checks"] = SubSeq(appended, 51, 150)
        /\ \A i, j \in 1..n : i < j => appended[i] # appended[j]

C6_Witness ==
    /\ Len(appended) = 150
    /\ Len(file.data["checks"]) = 100
    /\ file.data["checks"][1] = appended[51]
    /\ file.data["checks"][100] = appended[150]
    /\ file.data["checks"][1] # appended[1]

\* C7: once update(slots) has completed, the slots on disk are the
\* serialization of slots in order, last_check is set, and the last entry
\* of the check log counts len(slots).
C7_UpdateWritesCurrent ==
    \A p \in SerialProcs :
        cyc[p].save_outcome = "ok" =>
            /\ file.kind = "json"
            /\ Len(file.data["slots"]) = Len(cyc[p].slots)
            /\ \A i \in DOMAIN cyc[p].slots :
                  /\ file.data["slots"][i] = to_dict(cyc[p].slots[i])
                  /\ from_dict(file.data["slots"][i]) = cyc[p].slots[i]
            /\ file.data["last_check"] # None
            /\ file.data["checks"] # <<>>
            /\ file.data["checks"][Len(file.data["checks"])].slot_count = Len(cyc[p].slots)

C7_Witness ==
    \E p \in SerialProcs :
        /\ cyc[p].save_outcome = "ok"
        /\ cyc[p].file_before.kind = "json"
        /\ Len(cyc[p].file_before.data["slots"]) = 2
        /\ Len(cyc[p].slots) = 1
        /\ file.data["slots"] = <<to_dict(cyc[p].slots[1])>>
        /\ to_dict(cyc[p].slots[1]) \notin Range(cyc[p].file_before.data["slots"])

\* C8: with the history file missing or not parseable, load() does not
\* fail: the previous set is empty, every current slot is new and nothing
\* is removed.
C8_LoadNeverFails ==
    \A p \in SerialProcs :
        cyc[p].load_kind \in {"missing", "bad_json", "bad_bytes"} =>
            /\ cyc[p].raised_in # "get_previous_slots"
            /\ cyc[p].comparison.called
            /\ cyc[p].previous_slots = <<>>
            /\ cyc[p].comparison.new = cyc[p].slots
            /\ cyc[p].comparison.removed = <<>>

\* C9: a failed save leaves check_appointments as an exception; the cycle
\* never returns a result, successful or not.
C9_WriteFailurePropagates ==
    \A p \in SerialProcs :
        cyc[p].save_outcome \in {"open_failed", "write_failed"} =>
            /\ cyc[p].pc = "raised"
            /\ cyc[p].raised_in = "save"
            /\ ~cyc[p].result.success

C9_Witness ==
    \E p \in SerialProcs :
        /\ cyc[p].save_outcome = "write_failed"
        /\ cyc[p].pc = "raised"
        /\ cyc[p].file_before.kind = "json"
        /\ file = BadJsonFile

C11_DryRunWritesNothing ==
    \A p \in SerialProcs :
        (cyc[p].pc # "idle" /\ cyc[p].dry_run) =>
            /\ file = cyc[p].file_before
            /\ issues = cyc[p].issues_before
            /\ ~cyc[p].notify_called
            /\ cyc[p].save_outcome = ""
            /\ cyc[p].pc \notin {"update", "save"}
            /\ ~cyc[p].result.notification_sent
            /\ (cyc[p].pc = "done" /\ cyc[p].upstream_ok) =>
                  /\ cyc[p].result.success
                  /\ cyc[p].result.new_slots =
                        Cardinality({i \in DOMAIN cyc[p].slots :
                            IdentityKey(cyc[p].slots[i]) \notin
                              (IF file.kind = "json"
                               THEN {IdentityKey(from_dict(file.data["slots"][j])) :
                                        j \in DOMAIN file.data["slots"]}
                               ELSE {})})

C11_Witness ==
    \E p \in SerialProcs :
        /\ cyc[p].pc = "done"
        /\ cyc[p].dry_run
        /\ cyc[p].result.success
        /\ cyc[p].result.new_slots = 1
        /\ cyc[p].result.slots_found = 2
        /\ file.kind = "json"
        /\ file = cyc[p].file_before


\* The upstream events in which no slot data was obtained.
FailedToObtain ==
    {"navigate_failed", "browser_raised", "extract_raised", "http_error",
     "unparseable_body"}

\* C12: a cycle whose upstream failed to obtain slot data (the GetSlots
\* body could not be parsed, the extraction from the page raised, ...)
\* never reaches the comparison, ends with success = False, and leaves the
\* history file as it was.
C12_FailedUpstreamIsFailedCycle ==
    \A p \in SerialProcs :
        cyc[p].upstream \in FailedToObtain =>
            /\ cyc[p].pc = "done"
            /\ ~cyc[p].result.success
            /\ file = cyc[p].file_before

\* C13: the exit status is 0 exactly when the cycle returned success, and
\* it is not 0 when the upstream failed to obtain slot data.
C13_ExitStatus ==
    \A p \in SerialProcs :
        cyc[p].pc \in {"done", "raised"} =>
            /\ (exit_status(cyc[p]) = 0) <=>
                  (cyc[p].pc = "done" /\ cyc[p].result.success)
            /\ cyc[p].upstream \in FailedToObtain => exit_status(cyc[p]) # 0


DateKeys == {"Date", "date", "AppointmentDate", "StartDate"}
TimeKeys == {"Time", "time", "StartTime", "DisplayTime"}

\* The record has no value under any of the keys: each is absent, null or
\* the empty string.
Lacks(item, keys) ==
    \A k \in keys \cap DOMAIN item.d : item.d[k] \in {None, PyStr("")}

\* The document is {"Slots": [...]} and nothing else, no item of the list
\* being a container.
IsFlatPayload(doc) ==
    /\ doc.t = "dict" /\ DOMAIN doc.d = {"Slots"}
    /\ doc.d["Slots"].t = "list"
    /\ \A i \in DOMAIN doc.d["Slots"].items :
          LET item == doc.d["Slots"].items[i]
          IN  item.t = "dict" => DOMAIN item.d \cap {"Slots", "slots"} = {}

\* The document is one container list holding one day container.
IsDayPayload(doc) ==
    /\ doc.t = "dict" /\ Cardinality(DOMAIN doc.d) = 1 /\ DOMAIN doc.d \subseteq ContainerKeys
    /\ \A k \in DOMAIN doc.d :
          /\ doc.d[k].t = "list" /\ Len(doc.d[k].items) = 1
          /\ doc.d[k].items[1] \in DayContainers

TheDay(doc) == doc.d[CHOOSE k \in DOMAIN doc.d : TRUE].items[1]

\* C14: every record parse_slots returns has a date and a time that are
\* non-empty strings; in a flat list the items without a date or without a
\* time give no record and no exception, and in a day container the nested
\* entries without a time give none.
C14_DateAndTimeAlwaysPresent ==
    parse_result.called =>
        /\ \A i \in DOMAIN parse_result.slots :
              /\ parse_result.slots[i].date.t = "str"
              /\ parse_result.slots[i].date # PyStr("")
              /\ parse_result.slots[i].time.t = "str"
              /\ parse_result.slots[i].time # PyStr("")
        /\ IsFlatPayload(document) =>
              LET items == document.d["Slots"].items
              IN  /\ ~parse_result.raised
                  /\ Len(parse_result.slots) <=
                        Cardinality({i \in DOMAIN items :
                            /\ items[i].t = "dict"
                            /\ ~Lacks(items[i], DateKeys)
                            /\ ~Lacks(items[i], TimeKeys)})
        /\ (IsDayPayload(document) /\ ~parse_result.raised) =>
              LET nested == Iterate(Or(Get(TheDay(document).d, "Slots"),
                                       Get(TheDay(document).d, "slots"))).items
              IN  Len(parse_result.slots) <=
                     Cardinality({i \in DOMAIN nested :
                         nested[i].t = "dict" /\ ~Lacks(nested[i], TimeKeys)})

C14_Witness ==
    /\ parse_result.called
    /\ document =
          PyDict("Slots" :> PyList(<<PyDict("Time" :> T1),
                                     PyDict(("Date" :> D1) @@ ("Time" :> T1))>>))
    /\ parse_result = [called |-> TRUE, raised |-> FALSE,
                       slots |-> <<AppointmentSlot(D1, T1, None, None, None, None)>>]


\* C15: whatever the shape of an item or of a container in the document,
\* parse_slots returns without an exception, and the well-formed record
\* that stands in the top-level "Slots" list beside it is in the result.
C15_UnexpectedShapeIsLocal ==
    parse_result.called =>
        /\ ~parse_result.raised
        /\ \A i \in DOMAIN Iterate(GetOr(document.d, "Slots", EmptyList)).items :
              Iterate(GetOr(document.d, "Slots", EmptyList)).items[i] = FlatRecord =>
                  \E j \in DOMAIN parse_result.slots :
                      parse_result.slots[j] = AppointmentSlot(D1, T1, None, None, None, None)


\* A flat record carrying a date and a time: non-empty strings under Date
\* and Time, and no key besides these and ProviderName.
IsDatedRecord(item) ==
    /\ item.t = "dict"
    /\ {"Date", "Time"} \subseteq DOMAIN item.d
    /\ DOMAIN item.d \subseteq {"Date", "Time", "ProviderName"}
    /\ item.d["Date"].t = "str" /\ item.d["Date"] # PyStr("")
    /\ item.d["Time"].t = "str" /\ item.d["Time"] # PyStr("")

\* C16: a document that is only {"Slots": [k flat records with a date and a
\* time]} gives, without an exception, exactly k records, the i-th with the
\* date, time and ProviderName of the i-th flat record and with department,
\* department_id and slot_id unset.
C16_FlatSlotsList ==
    (/\ parse_result.called
     /\ IsFlatPayload(document)
     /\ \A i \in DOMAIN document.d["Slots"].items :
           IsDatedRecord(document.d["Slots"].items[i])) =>
        LET items == document.d["Slots"].items
        IN  /\ ~parse_result.raised
            /\ parse_result.slots =
                  [i \in DOMAIN items |->
                      AppointmentSlot(items[i].d["Date"], items[i].d["Time"],
                                      Get(items[i].d, "ProviderName"),
                                      None, None, None)]

C16_Witness ==
    /\ parse_result.called
    /\ document =
          PyDict("Slots" :> PyList(<<
              PyDict(("Date" :> D1) @@ ("Time" :> T1) @@ ("ProviderName" :> Rai)),
              PyDict(("Date" :> D1) @@ ("Time" :> T1))>>))
    /\ parse_result.slots =
          <<AppointmentSlot(D1, T1, Rai, None, None, None),
            AppointmentSlot(D1, T1, None, None, None, None)>>


\* the times of the entries of a nested list that are dicts with a
\* non-empty time, in their order
RECURSIVE TimesOf(_)
TimesOf(nested) ==
    IF nested = <<>> THEN <<>>
    ELSE LET entry == Head(nested)
         IN  IF entry.t = "dict" /\ "Time" \in DOMAIN entry.d /\ entry.d["Time"] # PyStr("")
             THEN <<entry.d["Time"]>> \o TimesOf(Tail(nested))
             ELSE TimesOf(Tail(nested))

\* C17: a document holding one day container (a date, a non-empty nested
\* list) gives one record for each nested entry that has a time, in their
\* order, each with the date of the container (2026-08-06, or 2026-08-18
\* for the day number 67800), also where the entry has a date of its own.
C17_DayDatePropagates ==
    (/\ parse_result.called
     /\ IsDayPayload(document)
     /\ Or(Get(TheDay(document).d, "Slots"), Get(TheDay(document).d, "slots")).t = "list"
     /\ Or(Get(TheDay(document).d, "Slots"), Get(TheDay(document).d, "slots")) # EmptyList) =>
        LET day == TheDay(document)
            day_date == Or(Get(day.d, "Date"), Get(day.d, "date"))
            nested == Or(Get(day.d, "Slots"), Get(day.d, "slots")).items
        IN  /\ ~parse_result.raised
            /\ [j \in DOMAIN parse_result.slots |-> parse_result.slots[j].time]
                  = TimesOf(nested)
            /\ \A j \in DOMAIN parse_result.slots :
                  parse_result.slots[j].date =
                     (IF day_date = D2 THEN D2 ELSE PyStr("2026-08-18"))

C17_Witness ==
    /\ parse_result.called
    /\ document = PyDict("Days" :> PyList(<<
          PyDict(("Date" :> D2) @@
                 ("Slots" :> PyList(<<PyDict("Time" :> T1),
                                      PyDict(("Time" :> T2) @@ ("Date" :> D1))>>)))>>))
    /\ parse_result.slots = <<AppointmentSlot(D2, T1, None, None, None, None),
                              AppointmentSlot(D2, T2, None, None, None, None)>>


\* the nested slot list of a provider or department container
NestedOf(container) ==
    Or(GetOr(container.d, "Slots", EmptyList),
       GetOr(container.d, "AvailableSlots", EmptyList))

\* The document holds, under key, a list of containers that are dicts with
\* a list of nested records.
HoldsContainers(doc, key) ==
    /\ doc.t = "dict" /\ key \in DOMAIN doc.d
    /\ doc.d[key].t = "list" /\ doc.d[key] # EmptyList
    /\ \A i \in DOMAIN doc.d[key].items :
          /\ doc.d[key].items[i].t = "dict"
          /\ NestedOf(doc.d[key].items[i]).t = "list"

\* the nested records of the containers, each with its container, in order
NestedPairs(containers) ==
    Flatten([i \in DOMAIN containers |->
                [j \in DOMAIN NestedOf(containers[i]).items |->
                    [container |-> containers[i].d,
                     entry |-> NestedOf(containers[i]).items[j].d]]])

\* the number of records of the top-level "Slots" list beside the containers
FlatCount(doc) ==
    IF "Slots" \in DOMAIN doc.d THEN Len(doc.d["Slots"].items) ELSE 0

\* C18: the records nested under provider containers come out, after those
\* of the top-level list, one for one and in order, each with the name of
\* its container as provider where the container has one; those nested
\* under department containers each with the container's name as
\* department and the container's id as department_id, which is then the
\* third part of the record's identity key.
C18_ContainerFieldsPropagate ==
    parse_result.called =>
        /\ \A key \in {"Providers", "providers"} :
              HoldsContainers(document, key) =>
                 LET pairs == NestedPairs(document.d[key].items)
                     k == FlatCount(document)
                 IN  /\ ~parse_result.raised
                     /\ Len(parse_result.slots) = k + Len(pairs)
                     /\ \A j \in DOMAIN pairs :
                           LET name == Or(Get(pairs[j].container, "Name"),
                                          Get(pairs[j].container, "DisplayName"))
                               slot == parse_result.slots[k + j]
                           IN  /\ slot.date = pairs[j].entry["Date"]
                               /\ slot.time = pairs[j].entry["Time"]
                               /\ Truthy(name) => slot.provider = name
        /\ \A key \in {"Departments", "departments"} :
              HoldsContainers(document, key) =>
                 LET pairs == NestedPairs(document.d[key].items)
                     k == FlatCount(document)
                 IN  /\ ~parse_result.raised
                     /\ Len(parse_result.slots) = k + Len(pairs)
                     /\ \A j \in DOMAIN pairs :
                           LET name == Or(Get(pairs[j].container, "Name"),
                                          Get(pairs[j].container, "DisplayName"))
                               id == Or(Get(pairs[j].container, "Id"),
                                        Get(pairs[j].container, "DepartmentId"))
                               slot == parse_result.slots[k + j]
                           IN  /\ slot.date = pairs[j].entry["Date"]
                               /\ slot.time = pairs[j].entry["Time"]
                               /\ Truthy(name) => slot.department = name
                               /\ Truthy(id) =>
                                     /\ slot.department_id = id
                                     /\ IdentityKey(slot) =
                                           <<pairs[j].entry["Date"],
                                             pairs[j].entry["Time"], id>>

\* a department container with a name and an id over a record that names a
\* department and an id of its own
C18_Witness ==
    /\ parse_result.called
    /\ document = PyDict("Departments" :> PyList(<<
          PyDict(("Name" :> Clinic) @@ ("Id" :> Dept) @@
                 ("Slots" :> PyList(<<Nested1, Nested2>>)))>>))
    /\ parse_result.slots =
          <<AppointmentSlot(D1, T1, None, Clinic, Dept, None),
            AppointmentSlot(D2, T2, Lee, Clinic, Dept, None)>>


RECURSIVE FirstPresent(_, _)
\* the value under the first key of keys that raw has, None when it has none
FirstPresent(raw, keys) ==
    IF keys = <<>> THEN None
    ELSE IF Head(keys) \in DOMAIN raw THEN raw[Head(keys)]
    ELSE FirstPresent(raw, Tail(keys))

\* the keys of keys that stand before the one holding value in raw
EarlierKeys(raw, keys, value) ==
    {keys[i] : i \in {i \in DOMAIN keys :
                        \E j \in DOMAIN keys :
                            /\ i < j /\ keys[j] \in DOMAIN raw /\ raw[keys[j]] = value}}

RECURSIVE FirstTruthy(_, _)
\* the value under the first key of keys whose value in raw is truthy; where
\* there is none, what the last key holds (None when absent)
FirstTruthy(raw, keys) ==
    IF Len(keys) = 1 THEN Get(raw, keys[1])
    ELSE IF Truthy(Get(raw, Head(keys))) THEN raw[Head(keys)]
    ELSE FirstTruthy(raw, Tail(keys))

IsoOfDayNumber(n) ==
    CASE n = 0 -> "1840-12-31"
      [] n = 1 -> "1841-01-01"
      [] n = 59 -> "1841-02-28"
      [] n = 60 -> "1841-03-01"
      [] n = 67800 -> "2026-08-18"
      [] n = 100000 -> "2114-10-16"

\* C20: a raw record whose Date is the integer n, and which has a time,
\* gives a record whose date is the ISO string of 1840-12-31 plus n days.
C20_DayNumberToIso ==
    (parsed.called /\ "Date" \in DOMAIN data /\ data["Date"].t = "int") =>
        /\ parsed.slots[1] # None
        /\ parsed.slots[1].date = PyStr(IsoOfDayNumber(data["Date"].n))


\* the calendar day after d
DayAfter(d) ==
    IF d.day < DaysInMonth(d.year, d.month)
    THEN [d EXCEPT !.day = d.day + 1]
    ELSE IF d.month < 12
         THEN [year |-> d.year, month |-> d.month + 1, day |-> 1]
         ELSE [year |-> d.year + 1, month |-> 1, day |-> 1]

\* C21: int_to_epic_date(0) is 1840-12-31, int_to_epic_date(n + 1) is the
\* calendar day after int_to_epic_date(n), epic_date_to_int of the n-th day
\* after the epoch is n, and 67800 is 2026-08-18.
C21_NoOffByOne ==
    converted.called =>
        /\ epic_int = 0 => converted.date = [year |-> 1840, month |-> 12, day |-> 31]
        /\ converted.next_date = DayAfter(converted.date)
        /\ converted.back = epic_int
        /\ epic_int = 67800 =>
              /\ converted.date = [year |-> 2026, month |-> 8, day |-> 18]
              /\ isoformat(converted.date) = "2026-08-18"

\* the leap day of 1844 is day 1155, followed by March 1
C21_Witness ==
    /\ converted.called
    /\ epic_int = 1155
    /\ converted.date = [year |-> 1844, month |-> 2, day |-> 29]
    /\ converted.next_date = [year |-> 1844, month |-> 3, day |-> 1]

\* C22: epic_date_to_int(int_to_epic_date(n)) = n for every n in 0..100000.
C22_EpochRoundTrip ==
    converted.called => epic_date_to_int(converted.date) = epic_int

C22_Witness ==
    /\ converted.called
    /\ epic_int = 100000
    /\ converted.date = [year |-> 2114, month |-> 10, day |-> 16]
    /\ converted.back = 100000


\* C23: after update(current_slots, raw_response) the stored snapshot holds
\* what this call gave it and nothing else: last_check, the slots passed,
\* the check log, and last_raw_response exactly where this call passed a
\* raw response, with that response as its value.
C23_SnapshotWhollyReplaced ==
    appended # <<>> =>
        /\ file.kind = "json"
        /\ file.data["slots"] = [i \in DOMAIN current |-> to_dict(current[i])]
        /\ file.data["checks"] = appended
        /\ file.data["last_check"] = utcnow_isoformat(clock - 1)
        /\ DOMAIN file.data =
              {"last_check", "slots", "checks"}
                 \cup (IF Truthy(document) THEN {"last_raw_response"} ELSE {})
        /\ Truthy(document) => file.data["last_raw_response"] = document


\* C24: nothing locks the history file.  Whenever an invocation's save
\* succeeds, the file is what that invocation built from the snapshot it
\* had loaded: its slots are that invocation's current slots and its check
\* log is the log it loaded plus its own entry, whatever another invocation
\* saved in between.
C24_LastWriterWins ==
    [][\A p \in Procs :
          (cyc[p].pc = "save" /\ cyc'[p].pc = "return") =>
              /\ file'.kind = "json"
              /\ file'.data["slots"] =
                    [i \in DOMAIN cyc[p].slots |-> to_dict(cyc[p].slots[i])]
              /\ file'.data["checks"] = cyc[p].history["checks"]
              /\ file'.data["checks"][Len(file'.data["checks"])] =
                    CheckRecord(cyc[p].update_at, cyc[p].slots)]_vars

\* both invocations saved, and the log in the file has the entry of one only
C24_Witness ==
    /\ \A p \in Procs : cyc[p].pc = "done" /\ cyc[p].save_outcome = "ok"
    /\ cyc[1].slots # cyc[2].slots
    /\ Len(appended) = 2
    /\ Len(file.data["checks"]) = 1
    /\ file.data["slots"] = [i \in DOMAIN cyc[2].slots |-> to_dict(cyc[2].slots[i])]
    /\ file.data["checks"][1] = CheckRecord(cyc[2].update_at, cyc[2].slots)


\* how many members of seq have the identity key
CountOf(seq, key) == Cardinality({i \in DOMAIN seq : IdentityKey(seq[i]) = key})

\* C25: compare_slots does not deduplicate current: new and unchanged
\* together are as long as current, and an identity that occurs k times in
\* current occurs k times in one of the two and not at all in the other.
C25_NoDeduplication ==
    comparison.called =>
        /\ Len(comparison.new) + Len(comparison.unchanged) = Len(current)
        /\ \A key \in KeysOf(current) :
              \/ /\ CountOf(comparison.new, key) = CountOf(current, key)
                 /\ CountOf(comparison.unchanged, key) = 0
              \/ /\ CountOf(comparison.unchanged, key) = CountOf(current, key)
                 /\ CountOf(comparison.new, key) = 0

\* the same identity three times in current, once in previous
C25_Witness ==
    /\ comparison.called
    /\ Len(current) = 3
    /\ Cardinality(KeysOf(current)) = 1
    /\ Len(previous) = 1
    /\ KeysOf(previous) = KeysOf(current)
    /\ Len(comparison.unchanged) = 3
    /\ comparison.new = <<>>


\* C26: a GetSlots request is sent only after, in this order, a workflow
\* initialization that succeeded, three questionnaire answers and a
\* location validation that succeeded.
C26_WorkflowOrder ==
    \A i \in DOMAIN wf.requests :
        wf.requests[i].endpoint = "get_slots" =>
            \E a, q1, q2, q3, l \in 1..(i - 1) :
                /\ a < q1 /\ q1 < q2 /\ q2 < q3 /\ q3 < l
                /\ wf.requests[a] = [endpoint |-> "init_workflow", ok |-> TRUE]
                /\ \A q \in {q1, q2, q3} :
                      wf.requests[q] = [endpoint |-> "evaluate_questionnaire", ok |-> TRUE]
                /\ wf.requests[l] = [endpoint |-> "evaluate_location", ok |-> TRUE]


\* the slots a file holds, as get_previous_slots reads them
StoredSlots(f) == [i \in DOMAIN f.data["slots"] |-> from_dict(f.data["slots"][i])]

\* the cycle of p started on a history file in which a cycle had saved
\* exactly the slots that p has now obtained
SameAsPersisted(p) ==
    /\ cyc[p].file_before.kind = "json"
    /\ cyc[p].file_before.data["slots"] =
          [i \in DOMAIN cyc[p].slots |-> to_dict(cyc[p].slots[i])]

\* C27: a cycle that is no dry run and obtains the slots the history file
\* holds classifies all of them as unchanged, none as new or removed, and
\* sends no notification; and no slot the file holds is classified as new,
\* so a slot is new in at most one of two consecutive saving cycles.
C27_SteadyState ==
    \A p \in SerialProcs :
        (cyc[p].comparison.called /\ ~cyc[p].dry_run) =>
            /\ SameAsPersisted(p) =>
                  /\ cyc[p].comparison.new = <<>>
                  /\ cyc[p].comparison.removed = <<>>
                  /\ cyc[p].comparison.unchanged = cyc[p].slots
                  /\ cyc[p].result.new_slots = 0
                  /\ ~cyc[p].notify_called
                  /\ issues = cyc[p].issues_before
            /\ cyc[p].file_before.kind = "json" =>
                  \A i \in DOMAIN cyc[p].comparison.new :
                      IdentityKey(cyc[p].comparison.new[i])
                          \notin KeysOf(StoredSlots(cyc[p].file_before))

C27_Witness ==
    \E p \in SerialProcs :
        /\ cyc[p].pc = "done"
        /\ ~cyc[p].dry_run
        /\ cyc[p].result.success
        /\ SameAsPersisted(p)
        /\ Len(cyc[p].slots) = 2
        /\ Len(appended) = 2
        /\ issues # <<>>


\* slot was in the slots of some notification of the list
Notified(slot, issue_list) ==
    \E i \in DOMAIN issue_list : \E j \in DOMAIN issue_list[i] : issue_list[i][j] = slot

\* C28: a cycle whose notification attempt failed goes on to update the
\* history: it raises only in that update, a save that succeeds leaves the
\* current slots in the file, and the cycle then ends in success with
\* notification_sent false.  A cycle finding a slot in the file does not
\* classify it as new, so a stored slot that was never notified stays so.
C28_FailedNotificationStillSaves ==
    \A p \in SerialProcs :
        /\ (cyc[p].notify_called /\ ~cyc[p].result.notification_sent) =>
              /\ ~cyc[p].dry_run
              /\ issues = cyc[p].issues_before
              /\ cyc[p].pc \in {"update", "save", "return", "done", "raised"}
              /\ cyc[p].pc = "raised" => cyc[p].raised_in \in {"update", "save"}
              /\ cyc[p].pc \in {"return", "done"} =>
                    /\ cyc[p].save_outcome = "ok"
                    /\ file.kind = "json"
                    /\ file.data["slots"] =
                          [i \in DOMAIN cyc[p].slots |-> to_dict(cyc[p].slots[i])]
              /\ cyc[p].pc = "done" => cyc[p].result.success
        /\ (cyc[p].comparison.called /\ cyc[p].file_before.kind = "json") =>
              \A i \in DOMAIN cyc[p].slots :
                  (/\ IdentityKey(cyc[p].slots[i]) \in KeysOf(StoredSlots(cyc[p].file_before))
                   /\ ~Notified(cyc[p].slots[i], cyc[p].issues_before))
                  => ~Notified(cyc[p].slots[i], issues)

\* a cycle has saved two slots whose notification failed, and the next
\* cycle, obtaining them again, has ended without any notification
C28_Witness ==
    \E p \in SerialProcs :
        /\ cyc[p].pc = "done"
        /\ ~cyc[p].dry_run
        /\ cyc[p].result.success
        /\ SameAsPersisted(p)
        /\ Len(cyc[p].slots) = 2
        /\ Len(appended) = 2
        /\ issues = <<>>


\* C29: the history file is as the cycle found it until save runs, while a
\* notification that was sent is already among the issues; when save
\* raises, the file holds none of the slots classified as new; and a cycle
\* classifies as new every slot it obtains that the file does not hold, and
\* calls send_notification for them if it is no dry run.
C29_NotificationPrecedesHistoryWrite ==
    \A p \in SerialProcs :
        /\ cyc[p].pc \in {"compare", "notify", "update", "save"} =>
              file = cyc[p].file_before
        /\ (cyc[p].notify_called /\ cyc[p].result.notification_sent) =>
              issues = Append(cyc[p].issues_before, cyc[p].comparison.new)
        /\ (cyc[p].pc = "raised" /\ cyc[p].raised_in = "save") =>
              /\ ~load(file).raised
              /\ \A i \in DOMAIN cyc[p].comparison.new :
                    IdentityKey(cyc[p].comparison.new[i]) \notin
                        KeysOf(StoredSlots([kind |-> "json", data |-> load(file).value]))
        /\ cyc[p].comparison.called =>
              /\ \A i \in DOMAIN cyc[p].slots :
                    IdentityKey(cyc[p].slots[i]) \notin
                        KeysOf(StoredSlots([kind |-> "json",
                                            data |-> load(cyc[p].file_before).value]))
                    => \E j \in DOMAIN cyc[p].comparison.new :
                          cyc[p].comparison.new[j] = cyc[p].slots[i]
              /\ (/\ ~cyc[p].dry_run
                  /\ cyc[p].comparison.new # <<>>
                  /\ cyc[p].pc # "notify") => cyc[p].notify_called

\* two cycles obtained the same slots, both notified them and both failed
\* to write the history
C29_Witness ==
    \E p \in SerialProcs :
        /\ cyc[p].pc = "raised"
        /\ cyc[p].raised_in = "save"
        /\ appended = <<>>
        /\ Len(issues) = 2
        /\ issues[1] = issues[2]
        /\ issues[2] = cyc[p].slots
        /\ Len(cyc[p].slots) = 2


\* the upstream events of browser mode in which the comparison is reached
BrowserKinds == {"extract_raised", "not_on_slots_page", "no_available_times", "slots_page"}

\* the previous set holds a slot of browser mode at the date and time of slot
HeldAtSameTime(slot, prev) ==
    \E j \in DOMAIN prev :
        /\ prev[j].date = slot.date
        /\ prev[j].time = slot.time
        /\ prev[j].department_id = None

\* C30: in a browser-mode cycle every slot has department_id None, and a
\* slot at a date and time at which the previous set holds a slot is
\* unchanged whatever its provider and department: it is not in new, not
\* counted in new_slots, and if all slots are such nothing is notified.
C30_BrowserIdentityIsDateAndTime ==
    \A p \in SerialProcs :
        (cyc[p].comparison.called /\ cyc[p].upstream \in BrowserKinds) =>
            LET slots == cyc[p].slots
                prev == cyc[p].previous_slots
                held == {i \in DOMAIN slots : HeldAtSameTime(slots[i], prev)}
            IN  /\ \A i \in DOMAIN slots : slots[i].department_id = None
                /\ \A i \in held :
                      /\ \E k \in DOMAIN cyc[p].comparison.unchanged :
                            cyc[p].comparison.unchanged[k] = slots[i]
                      /\ \A k \in DOMAIN cyc[p].comparison.new :
                            cyc[p].comparison.new[k] # slots[i]
                /\ cyc[p].result.new_slots = Cardinality(DOMAIN slots \ held)
                /\ held = DOMAIN slots =>
                      /\ ~cyc[p].notify_called
                      /\ issues = cyc[p].issues_before

\* the history held the 8:30 slot without provider and department; the
\* cycle found it with provider Rai at the clinic, and ended silent
C30_Witness ==
    \E p \in SerialProcs :
        /\ cyc[p].pc = "done"
        /\ ~cyc[p].dry_run
        /\ cyc[p].upstream = "slots_page"
        /\ cyc[p].previous_slots = <<AppointmentSlot(D1, T1, None, None, None, None)>>
        /\ cyc[p].slots = <<AppointmentSlot(D1, T1, Rai, Clinic, None, None)>>
        /\ cyc[p].result.new_slots = 0
        /\ cyc[p].result.success
        /\ ~cyc[p].notify_called

=============================================================================
